---------------------------- MODULE Spec2Model ----------------------------
(***************************************************************************)
(* A model of the token-economy simulator: the bonding-curve library, the  *)
(* Token, the Affiliate and the run_simulation engine.                     *)
(*                                                                         *)
(* Numbers.  The program computes in IEEE floating point.  The model       *)
(* keeps every quantity on a fixed-point grid: quantities of tokens        *)
(* (supply, amounts, wallet entries) in units of 1/Scale token, money      *)
(* (price, balance, notional, earnings) in units of 1/Scale of the base    *)
(* currency, and rates (fee, burn, commission) in units of 1/Scale.        *)
(* Sums and differences are exact; a product or quotient is rounded down   *)
(* to the grid (MulDiv), where the program rounds to the nearest float.    *)
(* np.exp and np.sqrt are modelled by Exp and Isqrt on the same grid.      *)
(***************************************************************************)
EXTENDS Integers, Sequences, FiniteSets, TLC

VARIABLES
    driver,      \* the entry point exercised: "token", "affiliate", "simulation"
                 \* (run_simulation), "steps" (the two step functions) or
                 \* "curves" (the bonding curve functions)
    tokens,      \* the Token objects, in list order (<<>> before construction)
    affiliates,  \* the Affiliate objects, in list order
    outcome,     \* the last call: its name, argument, what it raised and returned
    previous,    \* the call before the last one
    calls,       \* buy / sell / adjust / track calls made through an object's interface
    pc,          \* run_simulation's position
    params,      \* run_simulation's params dictionary
    step,        \* run_simulation's loop variable
    cursor,      \* 0-based index of the affiliate or token the current phase is at
    inner,       \* position of the phase's inner loop (see the phases)
    token_histories,
    affiliate_histories,
    bonding_curve_change_intervals   \* constants.py's module-level array

vars == <<driver, tokens, affiliates, outcome, previous, calls, pc, params, step,
          cursor, inner, token_histories, affiliate_histories,
          bonding_curve_change_intervals>>

objectVars == <<tokens, affiliates, outcome, previous, calls>>
engineVars == <<pc, params, step, cursor, inner, token_histories,
                affiliate_histories, bonding_curve_change_intervals>>

-----------------------------------------------------------------------------
(* Fixed-point arithmetic *)

\* Units per 1.0 of every fixed-point quantity.
Scale == 10^4

Min(a, b) == IF a <= b THEN a ELSE b
Max(a, b) == IF a >= b THEN a ELSE b

\* <<q, r>> with r * n = q * d + r', computed by doubling so that no
\* intermediate value exceeds 2 * d (r < d is required).
RECURSIVE MulRem(_, _, _)
MulRem(r, n, d) ==
    IF n = 0 THEN <<0, 0>>
    ELSE LET h  == MulRem(r, n \div 2, d)
             r2 == 2 * h[2] + (IF n % 2 = 1 THEN r ELSE 0)
         IN  <<2 * h[1] + (r2 \div d), r2 % d>>

\* floor(a * n / d) for a >= 0, n >= 0, d > 0.
MulDiv(a, n, d) == (a \div d) * n + MulRem(a % d, n, d)[1]

\* floor(sqrt(n)) by bisection.
RECURSIVE SqrtBetween(_, _, _)
SqrtBetween(n, lo, hi) ==
    IF lo >= hi THEN lo
    ELSE LET mid == (lo + hi + 1) \div 2
         IN  IF mid * mid <= n THEN SqrtBetween(n, mid, hi)
             ELSE SqrtBetween(n, lo, mid - 1)

Isqrt(n) == SqrtBetween(n, 0, Min(n, 46340))

\* e^0 .. e^12 on the grid.
ExpTable == <<10000, 27183, 73891, 200855, 545982, 1484132, 4034288,
              10966332, 29809580, 81030839, 220264658, 598741417,
              1627547914>>

\* e^f for 0 <= f < 1 (f on the grid): the Taylor polynomial of degree 8 in
\* Horner form.
RECURSIVE ExpSeries(_, _)
ExpSeries(f, k) ==
    IF k > 8 THEN Scale
    ELSE Scale + MulDiv(f, ExpSeries(f, k + 1), k * Scale)

\* np.exp(x) for x >= 0 on the grid.
ExpPos(x) == MulDiv(ExpTable[(x \div Scale) + 1], ExpSeries(x % Scale, 1), Scale)


\* np.exp(x) for any x on the grid.
Exp(x) == IF x >= 0 THEN ExpPos(x) ELSE (Scale * Scale) \div ExpPos(-x)

-----------------------------------------------------------------------------
(* bonding_curves.py.  Coefficients that multiply a supply (m, and the k   *)
(* of the exponential and sigmoid curves) are in units of 1/Micro; every   *)
(* other parameter is on the grid.  A curve takes its parameters as a      *)
(* record; each has a _raises predicate for its ValueError checks.         *)

Micro == 10^6

linear_defaults      == [m |-> 1000, b |-> 1 * Scale]
exponential_defaults == [a |-> 1 * Scale, k |-> 500]
sigmoid_defaults     == [K |-> 10 * Scale, k |-> 100, S0 |-> 5000 * Scale]
root_defaults        == [k |-> 1000]
inverse_defaults     == [k |-> 100000 * Scale]

linear_raises(supply, p) == supply < 0
linear_bonding_curve(supply, p) == MulDiv(supply, p.m, Micro) + p.b

\* Variant of the checks of exponential_bonding_curve without the bound
\* on k.
exponential_raises_supply_only(supply, p) == supply < 0

exponential_raises(supply, p) ==
    \/ supply < 0
    \/ (IF p.k < 0 THEN -p.k ELSE p.k) > 10000
exponential_bonding_curve(supply, p) ==
    MulDiv(p.a, Exp(IF p.k >= 0 THEN MulDiv(supply, p.k, Micro)
                    ELSE -MulDiv(supply, -p.k, Micro)), Scale)

\* Variant of sigmoid_bonding_curve with the midpoint at supply 0.
sigmoid_bonding_curve_no_midpoint(supply, p) ==
    MulDiv(p.K, Scale, Scale + Exp(-MulDiv(supply, p.k, Micro)))

sigmoid_raises(supply, p) == supply < 0 \/ p.K <= 0 \/ p.k <= 0
sigmoid_bonding_curve(supply, p) ==
    LET e == IF supply >= p.S0
             THEN Exp(-MulDiv(supply - p.S0, p.k, Micro))
             ELSE Exp(MulDiv(p.S0 - supply, p.k, Micro))
    IN  MulDiv(p.K, Scale, Scale + e)

root_raises(supply, p) == supply < 0
root_bonding_curve(supply, p) == MulDiv(Isqrt(supply), p.k, Isqrt(Scale))

inverse_raises(supply, p) == supply < 0 \/ p.k <= 0
inverse_bonding_curve(supply, p) == MulDiv(p.k, Scale, supply + Scale)

\* The list bonding_curve_functions, by 0-based position: the __name__ of
\* each entry.
bonding_curve_functions ==
    <<"linear_bonding_curve", "exponential_bonding_curve",
      "sigmoid_bonding_curve", "root_bonding_curve", "inverse_bonding_curve">>

NumCurves == Len(bonding_curve_functions)

\* bonding_curve_functions[i](supply, **p)
CurveValue(i, supply, p) ==
    CASE i = 0 -> linear_bonding_curve(supply, p)
      [] i = 1 -> exponential_bonding_curve(supply, p)
      [] i = 2 -> sigmoid_bonding_curve(supply, p)
      [] i = 3 -> root_bonding_curve(supply, p)
      [] i = 4 -> inverse_bonding_curve(supply, p)

CurveRaises(i, supply, p) ==
    CASE i = 0 -> linear_raises(supply, p)
      [] i = 1 -> exponential_raises(supply, p)
      [] i = 2 -> sigmoid_raises(supply, p)
      [] i = 3 -> root_raises(supply, p)
      [] i = 4 -> inverse_raises(supply, p)

CurveDefaults(i) ==
    CASE i = 0 -> linear_defaults
      [] i = 1 -> exponential_defaults
      [] i = 2 -> sigmoid_defaults
      [] i = 3 -> root_defaults
      [] i = 4 -> inverse_defaults

-----------------------------------------------------------------------------
(* constants.py *)

TRANSACTION_FEE_RATE == 25          \* 0.0025
BURN_RATE == 2                      \* 0.0002
COMMISSION_DYNAMICS_STEP == 10
DYNAMIC_ADJUSTMENT_RATE == 5        \* 0.0005
MOVING_AVERAGE_WINDOW == 50
COMMISSION_RATE_MIN == 0            \* 0.0
COMMISSION_RATE_MAX == 2000         \* 0.20
WHALE_INVESTMENT_MIN == 5000 * Scale
WHALE_INVESTMENT_MAX == 10000 * Scale
INVESTMENT_THRESHOLD == 50 * Scale
INITIAL_BASE_CURRENCY == 1000 * Scale
INITIAL_TOKEN_INVESTMENT == 10 * Scale
MAX_SELL_PERCENTAGE == 500          \* 0.05
BONDING_CURVE_PARAM_CHANGE_INTERVAL == 20
NUM_TOKENS == 5

-----------------------------------------------------------------------------
(* crypto_token.py: class Token.                                           *)
(*                                                                         *)
(* bonding_curve_func is either entry `index` of bonding_curve_functions   *)
(* (lambda = FALSE) or the closure change_bonding_curve_parameters builds  *)
(* around that entry (lambda = TRUE).  The closure calls np.random.uniform *)
(* for every parameter each time it is called, so evaluating it takes the  *)
(* parameters `draw` that this evaluation draws.                           *)

\* The ranges change_bonding_curve_parameters passes to np.random.uniform,
\* as <<low, high>> per parameter.
ParameterRanges(i) ==
    CASE i = 0 -> [m |-> <<500, 2000>>, b |-> <<5000, 15000>>]
      [] i = 1 -> [a |-> <<8000, 12000>>, k |-> <<400, 600>>]
      [] i = 2 -> [K |-> <<8 * Scale, 12 * Scale>>, k |-> <<80, 120>>,
                   S0 |-> <<4000 * Scale, 6000 * Scale>>]
      [] i = 3 -> [k |-> <<800, 1200>>]
      [] i = 4 -> [k |-> <<80000 * Scale, 120000 * Scale>>]

\* The draws the model explores for one evaluation of the closure: every
\* parameter at the low end of its range, or every parameter just below
\* the high end (uniform(low, high) is in [low, high)).
ParameterDraws(i) ==
    LET r == ParameterRanges(i)
    IN  { [n \in DOMAIN r |-> r[n][1]], [n \in DOMAIN r |-> r[n][2] - 1] }

FunctionName(f) ==
    IF f.lambda THEN "<lambda>" ELSE bonding_curve_functions[f.index + 1]

\* self.bonding_curve_func(supply)
CallCurve(f, supply, draw) ==
    CurveValue(f.index, supply, IF f.lambda THEN draw ELSE CurveDefaults(f.index))

CurveCallRaises(f, supply, draw) ==
    CurveRaises(f.index, supply, IF f.lambda THEN draw ELSE CurveDefaults(f.index))

\* The draws an evaluation of f can make.
Draws(f) == IF f.lambda THEN ParameterDraws(f.index) ELSE {CurveDefaults(f.index)}

\* Variant of the constructor's validation without the check of
\* initial_supply.
Token_raises_price_only(initial_supply, initial_price) == initial_price < 0

Token_raises(initial_supply, initial_price) ==
    initial_supply < 0 \/ initial_price < 0

\* Token.__init__
Token(name, initial_supply, initial_price, index) ==
    [name |-> name,
     supply |-> initial_supply,
     price |-> initial_price,
     bonding_curve_func |-> [lambda |-> FALSE, index |-> index],
     transaction_fee_rate |-> TRANSACTION_FEE_RATE,
     burn_rate |-> BURN_RATE,
     curve_metadata |-> [function_name |-> bonding_curve_functions[index + 1],
                         params |-> {}]]

\* Token.calculate_price
calculate_price(t, draw) == CallCurve(t.bonding_curve_func, t.supply, draw)

\* Variant of the residual that deducts the fee and not the burn.
AmountAfterFeeOnly(t, amount) ==
    amount - MulDiv(amount, t.transaction_fee_rate, Scale)

\* amount - fee - burn of buy and sell
AmountAfterFee(t, amount) ==
    amount - MulDiv(amount, t.transaction_fee_rate, Scale)
           - MulDiv(amount, t.burn_rate, Scale)

\* Variant of buy's validation that accepts an amount of 0.
buy_raises_negative_only(t, amount) == amount < 0

buy_raises(t, amount) == amount <= 0

\* Variant of buy that evaluates the curve before it adds to the supply.
buy_price_first(t, amount, draw) ==
    LET amount_after_fee == AmountAfterFee(t, amount)
    IN  IF amount_after_fee <= 0 THEN t
        ELSE [t EXCEPT !.supply = @ + amount_after_fee,
                       !.price = calculate_price(t, draw)]

\* Token.buy, when it does not raise: the token afterwards.  The value
\* returned is the price of that token.
buy(t, amount, draw) ==
    LET amount_after_fee == AmountAfterFee(t, amount)
        t1 == [t EXCEPT !.supply = @ + amount_after_fee]
    IN  IF amount_after_fee <= 0 THEN t
        ELSE [t1 EXCEPT !.price = calculate_price(t1, draw)]

\* Variant of sell's validation without the check against the supply.
sell_raises_amount_only(t, amount) == amount <= 0

sell_raises(t, amount) == amount <= 0 \/ amount > t.supply

\* Variant of sell that takes the whole amount out of the supply, fee and
\* burn included.
sell_whole_amount(t, amount, draw) ==
    LET t1 == [t EXCEPT !.supply = @ - amount]
    IN  [t1 EXCEPT !.price = calculate_price(t1, draw)]

\* Token.sell, when it does not raise.  calculate_price does not raise
\* here: the supply stays >= 0 and the parameters are the defaults or
\* drawn from ranges the curves accept.
sell(t, amount, draw) ==
    LET amount_after_fee == AmountAfterFee(t, amount)
        t1 == [t EXCEPT !.supply = @ - amount_after_fee]
    IN  IF amount_after_fee <= 0 THEN t
        ELSE [t1 EXCEPT !.price = calculate_price(t1, draw)]

\* bonding_curve_functions.index(self.bonding_curve_func) raises ValueError
\* when the function is not an entry of the list: the closure is not.
change_bonding_curve_raises(t) == t.bonding_curve_func.lambda

\* Variant of change_bonding_curve that recomputes the price on the new
\* curve.
change_bonding_curve_repricing(t) ==
    LET current_curve_index == t.bonding_curve_func.index
        next_curve_index == (current_curve_index + 1) % NumCurves
    IN  [t EXCEPT !.bonding_curve_func = [lambda |-> FALSE, index |-> next_curve_index],
                  !.curve_metadata = [function_name |-> bonding_curve_functions[next_curve_index + 1],
                                      params |-> {}],
                  !.price = CurveValue(next_curve_index, t.supply,
                                       CurveDefaults(next_curve_index))]

\* Token.change_bonding_curve, when it does not raise.
change_bonding_curve(t) ==
    LET current_curve_index == t.bonding_curve_func.index
        next_curve_index == (current_curve_index + 1) % NumCurves
    IN  [t EXCEPT !.bonding_curve_func = [lambda |-> FALSE, index |-> next_curve_index],
                  !.curve_metadata = [function_name |-> bonding_curve_functions[next_curve_index + 1],
                                      params |-> {}]]

\* Variant of change_bonding_curve_parameters that also sets the supply
\* back to 0.
change_bonding_curve_parameters_resetting(t) ==
    LET n == FunctionName(t.bonding_curve_func)
    IN  IF \E i \in 0..(NumCurves - 1) : bonding_curve_functions[i + 1] = n
        THEN LET i == CHOOSE j \in 0..(NumCurves - 1) : bonding_curve_functions[j + 1] = n
             IN  [t EXCEPT !.bonding_curve_func = [lambda |-> TRUE, index |-> i],
                           !.curve_metadata = [function_name |-> n,
                                               params |-> DOMAIN ParameterRanges(i)],
                           !.supply = 0]
        ELSE t

\* Token.change_bonding_curve_parameters: the branches compare
\* bonding_curve_func.__name__ with the five names; the closure's __name__
\* is "<lambda>" and matches none.
change_bonding_curve_parameters(t) ==
    LET n == FunctionName(t.bonding_curve_func)
    IN  IF \E i \in 0..(NumCurves - 1) : bonding_curve_functions[i + 1] = n
        THEN LET i == CHOOSE j \in 0..(NumCurves - 1) : bonding_curve_functions[j + 1] = n
             IN  [t EXCEPT !.bonding_curve_func = [lambda |-> TRUE, index |-> i],
                           !.curve_metadata = [function_name |-> n,
                                               params |-> DOMAIN ParameterRanges(i)]]
        ELSE t

-----------------------------------------------------------------------------
(* affiliate.py: class Affiliate.  wallet is a dictionary: a function from *)
(* the token names it holds, with wallet_keys their insertion order.       *)

RECURSIVE SumSeq(_)
SumSeq(xs) == IF xs = <<>> THEN 0 ELSE Head(xs) + SumSeq(Tail(xs))

\* Variant of the validation of Affiliate.__init__ without the check of
\* the commission rate.
Affiliate_raises_id_only(affiliate_id, initial_commission_rate) ==
    affiliate_id < 0

Affiliate_raises(affiliate_id, initial_commission_rate) ==
    \/ affiliate_id < 0
    \/ ~(COMMISSION_RATE_MIN <= initial_commission_rate
         /\ initial_commission_rate <= COMMISSION_RATE_MAX)

\* Variant of Affiliate.__init__ that draws a capacity for every affiliate.
Affiliate_capacity_for_all(affiliate_id, initial_commission_rate, is_whale, capacity) ==
    [affiliate_id |-> affiliate_id,
     commission_rate |-> initial_commission_rate,
     is_whale |-> is_whale,
     base_currency_balance |-> INITIAL_BASE_CURRENCY,
     wallet |-> <<>>,
     wallet_keys |-> <<>>,
     total_referral_amount |-> 0,
     total_earned |-> 0,
     earnings_history |-> <<>>,
     commission_rate_history |-> <<>>,
     recent_investment |-> <<>>,
     whale_investment_capacity |-> capacity]

\* Affiliate.__init__; capacity is the value np.random.uniform draws for a
\* whale.
Affiliate(affiliate_id, initial_commission_rate, is_whale, capacity) ==
    [affiliate_id |-> affiliate_id,
     commission_rate |-> initial_commission_rate,
     is_whale |-> is_whale,
     base_currency_balance |-> INITIAL_BASE_CURRENCY,
     wallet |-> <<>>,
     wallet_keys |-> <<>>,
     total_referral_amount |-> 0,
     total_earned |-> 0,
     earnings_history |-> <<>>,
     commission_rate_history |-> <<>>,
     recent_investment |-> <<>>,
     whale_investment_capacity |-> IF is_whale THEN capacity ELSE 0]

\* Variant of the comparison with the threshold that admits equality.
AverageAtLeastThreshold(recent_investment) ==
    /\ recent_investment # <<>>
    /\ SumSeq(recent_investment) >= INVESTMENT_THRESHOLD * Len(recent_investment)

\* avg_investment > INVESTMENT_THRESHOLD, with avg_investment the mean of
\* recent_investment, or 0 for the empty list.
AverageExceedsThreshold(recent_investment) ==
    /\ recent_investment # <<>>
    /\ SumSeq(recent_investment) > INVESTMENT_THRESHOLD * Len(recent_investment)

\* Variant of adjust_commission_dynamically that adjusts at every step.
adjust_commission_every_step(a, s) ==
    LET moved == IF AverageExceedsThreshold(a.recent_investment)
                 THEN a.commission_rate + DYNAMIC_ADJUSTMENT_RATE
                 ELSE a.commission_rate - DYNAMIC_ADJUSTMENT_RATE
    IN  [a EXCEPT !.commission_rate =
            Max(COMMISSION_RATE_MIN, Min(moved, COMMISSION_RATE_MAX))]

\* Variant of adjust_commission_dynamically without the final max/min.
adjust_commission_unclamped(a, s) ==
    IF s % COMMISSION_DYNAMICS_STEP = 0
    THEN [a EXCEPT !.commission_rate =
             IF AverageExceedsThreshold(a.recent_investment)
             THEN @ + DYNAMIC_ADJUSTMENT_RATE
             ELSE @ - DYNAMIC_ADJUSTMENT_RATE]
    ELSE a

\* Affiliate.adjust_commission_dynamically
adjust_commission_dynamically(a, s) ==
    IF s % COMMISSION_DYNAMICS_STEP = 0
    THEN LET moved == IF AverageExceedsThreshold(a.recent_investment)
                      THEN a.commission_rate + DYNAMIC_ADJUSTMENT_RATE
                      ELSE a.commission_rate - DYNAMIC_ADJUSTMENT_RATE
         IN  [a EXCEPT !.commission_rate =
                  Max(COMMISSION_RATE_MIN, Min(moved, COMMISSION_RATE_MAX))]
    ELSE a

\* Affiliate.calculate_commission
calculate_commission(a, trade_amount) ==
    IF trade_amount >= 0 THEN MulDiv(trade_amount, a.commission_rate, Scale)
    ELSE -MulDiv(-trade_amount, a.commission_rate, Scale)

\* Variant of track_referral's validation that accepts every amount.
track_referral_accepts_all(a, trade_amount) == FALSE

track_referral_raises(a, trade_amount) == trade_amount < 0

\* Affiliate.track_referral, when it does not raise.
track_referral(a, trade_amount) ==
    [a EXCEPT !.total_earned = @ + calculate_commission(a, trade_amount),
              !.total_referral_amount = @ + trade_amount]

-----------------------------------------------------------------------------
(* Bounds of the model *)

\* buy / sell / calculate_price / adjust / track calls made on an object
\* through its interface
MaxCalls == 3
\* num_simulation_steps, num_tokens and num_affiliates of the runs explored
MaxSteps == 2
MaxTokens == 2
MaxAffiliates == 2
\* num_simulation_steps * num_tokens * num_affiliates of the runs explored
MaxRunSize == 2

-----------------------------------------------------------------------------
(* The object interfaces: a caller constructs one Token or one Affiliate   *)
(* and calls its methods in any order, as the unit tests do.               *)

NoCall == [op |-> "none", arg |-> 0, raised |-> "none", ret |-> 0, pre |-> 0]

Call(op, arg, raised, ret, pre) ==
    [op |-> op, arg |-> arg, raised |-> raised, ret |-> ret, pre |-> pre]

NoParams ==
    [num_simulation_steps |-> 0, num_tokens |-> 0, num_affiliates |-> 0,
     initial_supply |-> 0, initial_price |-> 0, initial_commission_rate |-> 0,
     bonding_curve_functions |-> <<>>]

\* constants.py draws the intervals from range(500, 1000) when the module
\* is imported: the vectors the model explores.
IntervalVectors == { <<500, 500, 500, 500, 500>>, <<999, 998, 500, 731, 999>> }

EngineIdle ==
    /\ pc = "none"
    /\ params = NoParams
    /\ step = 0
    /\ cursor = 0
    /\ inner = 0
    /\ token_histories = <<>>
    /\ affiliate_histories = <<>>
    /\ bonding_curve_change_intervals = <<500, 500, 500, 500, 500>>

InitToken ==
    /\ driver = "token"
    /\ tokens = <<>>
    /\ affiliates = <<>>
    /\ outcome = NoCall
    /\ previous = NoCall
    /\ calls = 0
    /\ EngineIdle

\* Arguments the caller passes (tokens on the grid).
InitialSupplyChoices == {-1 * Scale, 0, 1000 * Scale}
InitialPriceChoices == {-1 * Scale, 0, 1 * Scale}
AmountChoices == {-1 * Scale, 0, 100 * Scale}

\* Token(name, initial_supply, initial_price, bonding_curve_functions[i]);
\* outcome records initial_supply as arg and initial_price as pre.
NewToken ==
    /\ driver = "token"
    /\ tokens = <<>>
    /\ outcome.op = "none"
    /\ \E s \in InitialSupplyChoices, p \in InitialPriceChoices,
          i \in 0..(NumCurves - 1) :
          IF Token_raises(s, p)
          THEN /\ outcome' = Call("Token", s, "ValueError", 0, p)
               /\ tokens' = tokens
          ELSE /\ outcome' = Call("Token", s, "none", 0, p)
               /\ tokens' = <<Token(0, s, p, i)>>
    /\ previous' = outcome
    /\ UNCHANGED <<driver, affiliates, calls>>
    /\ UNCHANGED engineVars

\* token.buy(amount)
CallBuy ==
    /\ driver = "token"
    /\ tokens # <<>>
    /\ calls < MaxCalls
    /\ LET t == tokens[1] IN
       \E amount \in AmountChoices, draw \in Draws(t.bonding_curve_func) :
          IF buy_raises(t, amount)
          THEN /\ outcome' = Call("buy", amount, "ValueError", 0, t.supply)
               /\ tokens' = tokens
          ELSE /\ tokens' = <<buy(t, amount, draw)>>
               /\ outcome' = Call("buy", amount, "none", tokens'[1].price, t.supply)
    /\ previous' = outcome
    /\ calls' = calls + 1
    /\ UNCHANGED <<driver, affiliates>>
    /\ UNCHANGED engineVars

\* The amounts a caller sells: the fixed choices, the whole supply, one
\* unit more than the supply, and the post-fee residual of the buy just made.
SellAmounts(t) ==
    AmountChoices \cup {t.supply, t.supply + 1}
        \cup (IF outcome.op = "buy" /\ outcome.raised = "none"
              THEN {AmountAfterFee(t, outcome.arg)} ELSE {})

\* token.sell(amount)
CallSell ==
    /\ driver = "token"
    /\ tokens # <<>>
    /\ calls < MaxCalls
    /\ LET t == tokens[1] IN
       \E amount \in SellAmounts(t), draw \in Draws(t.bonding_curve_func) :
          IF sell_raises(t, amount)
          THEN /\ outcome' = Call("sell", amount, "ValueError", 0, t.supply)
               /\ tokens' = tokens
          ELSE /\ tokens' = <<sell(t, amount, draw)>>
               /\ outcome' = Call("sell", amount, "none", tokens'[1].price, t.supply)
    /\ previous' = outcome
    /\ calls' = calls + 1
    /\ UNCHANGED <<driver, affiliates>>
    /\ UNCHANGED engineVars

\* token.change_bonding_curve()
CallChangeBondingCurve ==
    /\ driver = "token"
    /\ tokens # <<>>
    /\ LET t == tokens[1] IN
          IF change_bonding_curve_raises(t)
          THEN /\ outcome' = Call("change_bonding_curve", 0, "ValueError", 0, t.supply)
               /\ tokens' = tokens
          ELSE /\ outcome' = Call("change_bonding_curve", 0, "none", 0, t.supply)
               /\ tokens' = <<change_bonding_curve(t)>>
    /\ previous' = outcome
    /\ UNCHANGED <<driver, affiliates, calls>>
    /\ UNCHANGED engineVars

\* token.change_bonding_curve_parameters()
CallChangeBondingCurveParameters ==
    /\ driver = "token"
    /\ tokens # <<>>
    /\ LET t == tokens[1] IN
          /\ outcome' = Call("change_bonding_curve_parameters", 0, "none", 0, t.supply)
          /\ tokens' = <<change_bonding_curve_parameters(t)>>
    /\ previous' = outcome
    /\ UNCHANGED <<driver, affiliates, calls>>
    /\ UNCHANGED engineVars

\* token.calculate_price(): returns the value and assigns nothing.
CallCalculatePrice ==
    /\ driver = "token"
    /\ tokens # <<>>
    /\ calls < MaxCalls
    /\ LET t == tokens[1] IN
       \E draw \in Draws(t.bonding_curve_func) :
          outcome' = Call("calculate_price", 0, "none", calculate_price(t, draw), t.supply)
    /\ previous' = outcome
    /\ calls' = calls + 1
    /\ UNCHANGED <<driver, tokens, affiliates>>
    /\ UNCHANGED engineVars

NextToken ==
    \/ NewToken
    \/ CallBuy
    \/ CallSell
    \/ CallChangeBondingCurve
    \/ CallChangeBondingCurveParameters
    \/ CallCalculatePrice

SpecToken == InitToken /\ [][NextToken]_vars

-----------------------------------------------------------------------------
(* The Affiliate interface *)

InitAffiliate ==
    /\ driver = "affiliate"
    /\ tokens = <<>>
    /\ affiliates = <<>>
    /\ outcome = NoCall
    /\ previous = NoCall
    /\ calls = 0
    /\ EngineIdle

AffiliateIdChoices == {-1, 0, 2}
CommissionRateChoices == {-1, 0, 1, 1000, 1999, 2000, 2001}
CapacityChoices == {WHALE_INVESTMENT_MIN, WHALE_INVESTMENT_MAX - 1}
StepChoices == {0, 1, 9, 10, 20}
TradeAmountChoices == {-1 * Scale, 0, 50 * Scale}
\* Contents a caller gives recent_investment: empty, a mean above, below
\* and equal to the threshold.
RecentInvestmentChoices ==
    { <<>>, <<60 * Scale, 70 * Scale, 80 * Scale>>,
      <<10 * Scale, 20 * Scale, 30 * Scale>>, <<40 * Scale, 60 * Scale>> }

\* Affiliate(affiliate_id, initial_commission_rate, is_whale); outcome
\* records initial_commission_rate as arg and affiliate_id as pre.
NewAffiliate ==
    /\ driver = "affiliate"
    /\ affiliates = <<>>
    /\ outcome.op = "none"
    /\ \E id \in AffiliateIdChoices, rate \in CommissionRateChoices,
          whale \in BOOLEAN, capacity \in CapacityChoices :
          IF Affiliate_raises(id, rate)
          THEN /\ outcome' = Call("Affiliate", rate, "ValueError", 0, id)
               /\ affiliates' = affiliates
          ELSE /\ outcome' = Call("Affiliate", rate, "none", 0, id)
               /\ affiliates' = <<Affiliate(id, rate, whale, capacity)>>
    /\ previous' = outcome
    /\ UNCHANGED <<driver, tokens, calls>>
    /\ UNCHANGED engineVars

\* affiliate.recent_investment = [...]
SetRecentInvestment ==
    /\ driver = "affiliate"
    /\ affiliates # <<>>
    /\ \E xs \in RecentInvestmentChoices :
          /\ xs # affiliates[1].recent_investment
          /\ affiliates' = <<[affiliates[1] EXCEPT !.recent_investment = xs]>>
    /\ outcome' = Call("recent_investment", 0, "none", 0, affiliates[1].commission_rate)
    /\ previous' = outcome
    /\ UNCHANGED <<driver, tokens, calls>>
    /\ UNCHANGED engineVars

\* affiliate.adjust_commission_dynamically(step)
CallAdjustCommission ==
    /\ driver = "affiliate"
    /\ affiliates # <<>>
    /\ calls < MaxCalls
    /\ \E s \in StepChoices :
          /\ affiliates' = <<adjust_commission_dynamically(affiliates[1], s)>>
          /\ outcome' = Call("adjust_commission_dynamically", s, "none", 0,
                             affiliates[1].commission_rate)
    /\ previous' = outcome
    /\ calls' = calls + 1
    /\ UNCHANGED <<driver, tokens>>
    /\ UNCHANGED engineVars

\* affiliate.track_referral(trade_amount)
CallTrackReferral ==
    /\ driver = "affiliate"
    /\ affiliates # <<>>
    /\ calls < MaxCalls
    /\ \E amount \in TradeAmountChoices :
          IF track_referral_raises(affiliates[1], amount)
          THEN /\ outcome' = Call("track_referral", amount, "ValueError", 0,
                                  affiliates[1].commission_rate)
               /\ affiliates' = affiliates
          ELSE /\ outcome' = Call("track_referral", amount, "none", 0,
                                  affiliates[1].commission_rate)
               /\ affiliates' = <<track_referral(affiliates[1], amount)>>
    /\ previous' = outcome
    /\ calls' = calls + 1
    /\ UNCHANGED <<driver, tokens>>
    /\ UNCHANGED engineVars

NextAffiliate ==
    \/ NewAffiliate
    \/ SetRecentInvestment
    \/ CallAdjustCommission
    \/ CallTrackReferral

SpecAffiliate == InitAffiliate /\ [][NextAffiliate]_vars

-----------------------------------------------------------------------------
(* simulation.py: run_simulation and the phases of one step.               *)
(*                                                                         *)
(* pc: "start" (not started), "trading", "maintenance", "liquidation",     *)
(* "capture" (inside step `step`), "done" (returned), "aborted" (an        *)
(* exception left run_simulation; outcome names it).                       *)

\* The params dictionaries the model runs.  bonding_curve_functions is the
\* list the tokens' initial curves are chosen from (0-based positions in
\* the module's list); the other keys take their defaults.  Besides the
\* runs within the bounds there is the smallest run with one token more
\* than bonding_curve_change_intervals has entries.  Negative supplies and
\* prices and rates outside the bounds are the configurations the
\* constructors reject; the rates 0.0 and 0.0003 are less than one adjustment
\* above the minimum.
Configs ==
    { c \in [num_simulation_steps : 1..MaxSteps,
             num_tokens : 1..MaxTokens \cup {NUM_TOKENS + 1},
             num_affiliates : 1..MaxAffiliates,
             initial_supply : {-1 * Scale, 0, 1000 * Scale},
             initial_price : {-1 * Scale, 0, 1 * Scale},
             initial_commission_rate : {-1, 0, 3, 1000, COMMISSION_RATE_MAX + 1},
             bonding_curve_functions : {<<0>>, <<0, 1, 2, 3, 4>>}] :
        /\ \/ c.num_simulation_steps * c.num_tokens * c.num_affiliates <= MaxRunSize
           \/ /\ c.num_tokens = NUM_TOKENS + 1
              /\ c.num_simulation_steps * c.num_affiliates = 1
              /\ c.initial_supply > 0
              /\ c.initial_price > 0
        /\ (Len(c.bonding_curve_functions) > 1 \/ c.initial_commission_rate \in {0, 3}) =>
              c.num_simulation_steps * c.num_tokens * c.num_affiliates = 1 }

InitSimulation ==
    /\ driver = "simulation"
    /\ tokens = <<>>
    /\ affiliates = <<>>
    /\ outcome = NoCall
    /\ previous = NoCall
    /\ calls = 0
    /\ pc = "start"
    /\ params \in Configs
    /\ step = 0
    /\ cursor = 0
    /\ inner = 0
    /\ token_histories = <<>>
    /\ affiliate_histories = <<>>
    /\ bonding_curve_change_intervals \in IntervalVectors

Abort(where, exception) ==
    /\ pc' = "aborted"
    /\ outcome' = Call(where, 0, exception, 0, 0)

\* Variant of the loop head that stops one iteration early.
LoopHeadShort(s) ==
    IF s + 1 < params.num_simulation_steps
    THEN [pc |-> "trading", step |-> s, cursor |-> 0, inner |-> -1]
    ELSE [pc |-> "done", step |-> s, cursor |-> 0, inner |-> 0]

\* The position at the head of the loop body for step s, or "done" when
\* range(num_simulation_steps) is exhausted.
LoopHead(s) ==
    IF s < params.num_simulation_steps
    THEN [pc |-> "trading", step |-> s, cursor |-> 0, inner |-> -1]
    ELSE [pc |-> "done", step |-> s, cursor |-> 0, inner |-> 0]

\* run_simulation up to the loop: the tokens, the affiliates and the empty
\* histories.
Setup ==
    /\ driver = "simulation"
    /\ pc = "start"
    /\ IF Token_raises(params.initial_supply, params.initial_price)
       THEN /\ Abort("Token", "ValueError")
            /\ UNCHANGED <<tokens, affiliates, step, cursor, inner,
                           token_histories, affiliate_histories>>
       ELSE IF \E i \in 0..(params.num_affiliates - 1) :
                  Affiliate_raises(i, params.initial_commission_rate)
       THEN /\ Abort("Affiliate", "ValueError")
            /\ UNCHANGED <<tokens, affiliates, step, cursor, inner,
                           token_histories, affiliate_histories>>
       ELSE /\ \E curve \in [1..params.num_tokens -> 1..Len(params.bonding_curve_functions)] :
                  tokens' = [i \in 1..params.num_tokens |->
                                Token(i - 1, params.initial_supply, params.initial_price,
                                      params.bonding_curve_functions[curve[i]])]
            /\ \E capacity \in CapacityChoices :
                  affiliates' = [i \in 1..params.num_affiliates |->
                                    Affiliate(i - 1, params.initial_commission_rate,
                                              (i - 1) < (params.num_affiliates \div 5),
                                              capacity)]
            /\ token_histories' = [n \in 0..(params.num_tokens - 1) |->
                                      [price |-> <<>>, supply |-> <<>>, bonding_curve |-> <<>>]]
            /\ affiliate_histories' = [n \in 0..(params.num_affiliates - 1) |->
                                          [earned |-> <<>>, commission_rate |-> <<>>,
                                           wallet |-> <<>>, base_currency_balance |-> <<>>]]
            /\ pc' = LoopHead(0).pc
            /\ step' = 0
            /\ cursor' = 0
            /\ inner' = LoopHead(0).inner
            /\ UNCHANGED outcome
    /\ UNCHANGED <<driver, previous, calls, params, bonding_curve_change_intervals>>


\* The values the model takes for a draw of np.random.rand(), in [0, 1):
\* 0.0 and the grid value just below 1.
UnitDraws == {0, Scale - 1}

\* Variant of invest_amount with a base investment of 100.
InvestAmountLarge(a, r) ==
    IF a.is_whale /\ a.whale_investment_capacity > 0
    THEN MulDiv(a.whale_investment_capacity, 1000 + MulDiv(3000, r, Scale), Scale)
    ELSE 10 * INITIAL_TOKEN_INVESTMENT + MulDiv(5 * Scale, r, Scale)

\* invest_amount of one transaction, for the draw r
InvestAmount(a, r) ==
    IF a.is_whale /\ a.whale_investment_capacity > 0
    THEN MulDiv(a.whale_investment_capacity, 1000 + MulDiv(3000, r, Scale), Scale)
    ELSE INITIAL_TOKEN_INVESTMENT + MulDiv(5 * Scale, r, Scale)

WalletGet(wallet, name) == IF name \in DOMAIN wallet THEN wallet[name] ELSE 0

\* Variant of the window update that drops the new entry when the list is
\* full.
AppendInvestmentDroppingNewest(a, invest_amount) ==
    LET r == Append(a.recent_investment, invest_amount)
    IN  [a EXCEPT !.recent_investment =
            IF Len(r) > MOVING_AVERAGE_WINDOW THEN SubSeq(r, 1, MOVING_AVERAGE_WINDOW) ELSE r]

\* affiliate.recent_investment.append(invest_amount), then pop(0) when the
\* list is longer than MOVING_AVERAGE_WINDOW
AppendInvestment(a, invest_amount) ==
    LET r == Append(a.recent_investment, invest_amount)
    IN  [a EXCEPT !.recent_investment =
            IF Len(r) > MOVING_AVERAGE_WINDOW THEN Tail(r) ELSE r]

\* What a callee hands back: the exception that left it ("none" if none)
\* and the two objects it worked on.
Result(raised, t, a) == [raised |-> raised, token |-> t, affiliate |-> a]

\* Variant of _buy_token that credits the wallet with the quantity left
\* after the fee and the burn.
buy_token_crediting_residual(t, a, tokens_to_trade, cost, draw) ==
    IF buy_raises(t, tokens_to_trade) THEN Result("ValueError", t, a)
    ELSE LET t1 == buy(t, tokens_to_trade, draw)
             credited == AmountAfterFee(t, tokens_to_trade)
             a1 == [a EXCEPT !.base_currency_balance = @ - cost,
                             !.wallet = IF t.name \in DOMAIN a.wallet
                                        THEN [a.wallet EXCEPT ![t.name] = @ + credited]
                                        ELSE (t.name :> credited) @@ a.wallet,
                             !.wallet_keys = IF t.name \in DOMAIN a.wallet THEN @
                                             ELSE Append(@, t.name)]
         IN  IF track_referral_raises(a1, cost) THEN Result("ValueError", t1, a1)
             ELSE Result("none", t1, track_referral(a1, cost))

\* Variant of _buy_token that debits the cost twice.
buy_token_double_debit(t, a, tokens_to_trade, cost, draw) ==
    IF buy_raises(t, tokens_to_trade) THEN Result("ValueError", t, a)
    ELSE LET t1 == buy(t, tokens_to_trade, draw)
             a1 == [a EXCEPT !.base_currency_balance = @ - 2 * cost,
                             !.wallet = IF t.name \in DOMAIN a.wallet
                                        THEN [a.wallet EXCEPT ![t.name] = @ + tokens_to_trade]
                                        ELSE (t.name :> tokens_to_trade) @@ a.wallet,
                             !.wallet_keys = IF t.name \in DOMAIN a.wallet THEN @
                                             ELSE Append(@, t.name)]
         IN  IF track_referral_raises(a1, cost) THEN Result("ValueError", t1, a1)
             ELSE Result("none", t1, track_referral(a1, cost))

\* _buy_token
buy_token(t, a, tokens_to_trade, cost, draw) ==
    IF buy_raises(t, tokens_to_trade) THEN Result("ValueError", t, a)
    ELSE LET t1 == buy(t, tokens_to_trade, draw)
             a1 == [a EXCEPT !.base_currency_balance = @ - cost,
                             !.wallet = IF t.name \in DOMAIN a.wallet
                                        THEN [a.wallet EXCEPT ![t.name] = @ + tokens_to_trade]
                                        ELSE (t.name :> tokens_to_trade) @@ a.wallet,
                             !.wallet_keys = IF t.name \in DOMAIN a.wallet THEN @
                                             ELSE Append(@, t.name)]
         IN  IF track_referral_raises(a1, cost) THEN Result("ValueError", t1, a1)
             ELSE Result("none", t1, track_referral(a1, cost))

\* Variant of _sell_token that raises when tokens_to_trade exceeds the
\* holding, where _sell_token takes the minimum.
sell_token_rejecting(t, a, tokens_to_trade, draw) ==
    LET tokens_available == WalletGet(a.wallet, t.name)
    IN  IF tokens_to_trade > tokens_available THEN Result("ValueError", t, a)
        ELSE IF tokens_to_trade > 0
        THEN IF sell_raises(t, tokens_to_trade) THEN Result("ValueError", t, a)
             ELSE LET t1 == sell(t, tokens_to_trade, draw)
                      sale_proceeds == MulDiv(t1.price, tokens_to_trade, Scale)
                      a1 == [a EXCEPT !.wallet[t.name] = @ - tokens_to_trade,
                                      !.base_currency_balance = @ + sale_proceeds]
                  IN  Result("none", t1, track_referral(a1, sale_proceeds))
        ELSE Result("none", t, a)

\* Variant of _sell_token that sells tokens_to_trade out of a wallet entry
\* that exists, without taking the minimum with the holding.
sell_token_unclamped(t, a, tokens_to_trade, draw) ==
    LET tokens_to_sell == IF t.name \in DOMAIN a.wallet THEN tokens_to_trade ELSE 0
    IN  IF tokens_to_sell > 0
        THEN IF sell_raises(t, tokens_to_sell) THEN Result("ValueError", t, a)
             ELSE LET t1 == sell(t, tokens_to_sell, draw)
                      sale_proceeds == MulDiv(t1.price, tokens_to_sell, Scale)
                      a1 == [a EXCEPT !.wallet[t.name] = @ - tokens_to_sell,
                                      !.base_currency_balance = @ + sale_proceeds]
                  IN  Result("none", t1, track_referral(a1, sale_proceeds))
        ELSE Result("none", t, a)

\* _sell_token
sell_token(t, a, tokens_to_trade, draw) ==
    LET tokens_available == WalletGet(a.wallet, t.name)
        tokens_to_sell == Min(tokens_to_trade, tokens_available)
    IN  IF tokens_to_sell > 0
        THEN IF sell_raises(t, tokens_to_sell) THEN Result("ValueError", t, a)
             ELSE LET t1 == sell(t, tokens_to_sell, draw)
                      sale_proceeds == MulDiv(t1.price, tokens_to_sell, Scale)
                      a1 == [a EXCEPT !.wallet[t.name] = @ - tokens_to_sell,
                                      !.base_currency_balance = @ + sale_proceeds]
                  IN  IF track_referral_raises(a1, sale_proceeds)
                      THEN Result("ValueError", t1, a1)
                      ELSE Result("none", t1, track_referral(a1, sale_proceeds))
        ELSE Result("none", t, a)

\* tokens_to_trade = invest_amount / token_price
TokensToTrade(invest_amount, token_price) == MulDiv(invest_amount, Scale, token_price)

\* Variant of the transaction that buys without comparing the balance with
\* the cost.
ProcessTransactionUnchecked(t, a, invest_amount, buys, draw) ==
    LET token_price == t.price
        tokens_to_trade == TokensToTrade(invest_amount, token_price)
        cost == MulDiv(tokens_to_trade, token_price, Scale)
        traded == IF buys
                  THEN buy_token(t, a, tokens_to_trade, cost, draw)
                  ELSE sell_token(t, a, tokens_to_trade, draw)
    IN  IF token_price > 0
        THEN IF traded.raised # "none" THEN traded
             ELSE Result("none", traded.token,
                         AppendInvestment(traded.affiliate, invest_amount))
        ELSE Result("none", t, a)

\* One iteration of the transaction loop of _process_affiliate_trades for
\* the drawn token, the drawn invest_amount and the drawn side.
ProcessTransaction(t, a, invest_amount, buys, draw) ==
    LET token_price == t.price
        tokens_to_trade == TokensToTrade(invest_amount, token_price)
        cost == MulDiv(tokens_to_trade, token_price, Scale)
        traded == IF buys
                  THEN IF a.base_currency_balance >= cost
                       THEN buy_token(t, a, tokens_to_trade, cost, draw)
                       ELSE Result("none", t, a)
                  ELSE sell_token(t, a, tokens_to_trade, draw)
    IN  IF token_price > 0
        THEN IF traded.raised # "none" THEN traded
             ELSE Result("none", traded.token,
                         AppendInvestment(traded.affiliate, invest_amount))
        ELSE Result("none", t, a)

\* Variant of the position after a transaction that moves on to the token
\* maintenance as soon as one affiliate has made its transactions.
AfterTradeOneAffiliate(left) ==
    IF left > 0 THEN [pc |-> "trading", cursor |-> cursor, inner |-> left]
    ELSE [pc |-> "maintenance", cursor |-> 0, inner |-> 0]

\* The position after an affiliate's draw or transaction leaves `left`
\* transactions to make: the next transaction, the next affiliate, or the
\* token maintenance.
AfterTrade(left) ==
    IF left > 0 THEN [pc |-> "trading", cursor |-> cursor, inner |-> left]
    ELSE IF cursor + 1 < Len(affiliates)
         THEN [pc |-> "trading", cursor |-> cursor + 1, inner |-> -1]
         ELSE [pc |-> "maintenance", cursor |-> 0, inner |-> 0]

\* num_transactions = np.random.randint(1, 3), or randint(0, 2) for a whale
DrawTransactions ==
    /\ driver \in {"simulation", "steps"}
    /\ pc = "trading"
    /\ inner = -1
    /\ \E num_transactions \in (IF affiliates[cursor + 1].is_whale THEN 0..1 ELSE 1..2) :
          /\ pc' = AfterTrade(num_transactions).pc
          /\ cursor' = AfterTrade(num_transactions).cursor
          /\ inner' = AfterTrade(num_transactions).inner
    /\ UNCHANGED <<driver, tokens, affiliates, outcome, previous, calls, params, step,
                   token_histories, affiliate_histories, bonding_curve_change_intervals>>

\* One transaction of the affiliate at cursor.  outcome records it: the
\* side ("skip" when the price is not positive), tokens_to_trade, the
\* exception that ended it, the quantity that moved into or out of the
\* wallet, and the affiliate's holding of the token before it.
Transaction ==
    /\ driver \in {"simulation", "steps"}
    /\ pc = "trading"
    /\ inner > 0
    /\ \E random_token_index \in 1..Len(tokens), r \in UnitDraws, buys \in BOOLEAN :
       \E draw \in Draws(tokens[random_token_index].bonding_curve_func) :
          LET a == affiliates[cursor + 1]
              t == tokens[random_token_index]
              res == ProcessTransaction(t, a, InvestAmount(a, r), buys, draw)
              op == IF t.price > 0 THEN (IF buys THEN "buy" ELSE "sell") ELSE "skip"
              tokens_to_trade == IF t.price > 0
                                 THEN TokensToTrade(InvestAmount(a, r), t.price) ELSE 0
              held == WalletGet(a.wallet, t.name)
              moved == WalletGet(res.affiliate.wallet, t.name) - held
          IN  IF res.raised # "none"
              THEN /\ pc' = "aborted"
                   /\ outcome' = Call(op, tokens_to_trade, res.raised, 0, held)
                   /\ UNCHANGED <<tokens, affiliates, cursor, inner>>
              ELSE /\ tokens' = [tokens EXCEPT ![random_token_index] = res.token]
                   /\ affiliates' = [affiliates EXCEPT ![cursor + 1] = res.affiliate]
                   /\ pc' = AfterTrade(inner - 1).pc
                   /\ cursor' = AfterTrade(inner - 1).cursor
                   /\ inner' = AfterTrade(inner - 1).inner
                   /\ outcome' = Call(op, tokens_to_trade, "none",
                                      IF moved < 0 THEN -moved ELSE moved, held)
    /\ UNCHANGED <<driver, previous, calls, params, step,
                   token_histories, affiliate_histories, bonding_curve_change_intervals>>


\* One iteration of the loop of _update_tokens, for the token at cursor.
\* bonding_curve_change_intervals[i] raises IndexError past the array's end.
UpdateToken ==
    /\ driver \in {"simulation", "steps"}
    /\ pc = "maintenance"
    /\ LET i == cursor
           t == tokens[i + 1]
           changes == step % bonding_curve_change_intervals[i + 1] = 0
           t1 == IF changes THEN change_bonding_curve(t) ELSE t
           t2 == IF step % BONDING_CURVE_PARAM_CHANGE_INTERVAL = 0
                 THEN change_bonding_curve_parameters(t1) ELSE t1
       IN  IF i >= Len(bonding_curve_change_intervals)
           THEN /\ Abort("_update_tokens", "IndexError")
                /\ UNCHANGED <<tokens, cursor, inner>>
           ELSE IF changes /\ change_bonding_curve_raises(t)
           THEN /\ Abort("change_bonding_curve", "ValueError")
                /\ UNCHANGED <<tokens, cursor, inner>>
           ELSE /\ tokens' = [tokens EXCEPT ![i + 1] = t2]
                /\ IF i + 1 < Len(tokens)
                   THEN /\ cursor' = i + 1
                        /\ UNCHANGED <<pc, inner>>
                   ELSE /\ pc' = "liquidation"
                        /\ cursor' = 0
                        /\ inner' = 1
                /\ UNCHANGED outcome
    /\ UNCHANGED <<driver, affiliates, previous, calls, params, step,
                   token_histories, affiliate_histories, bonding_curve_change_intervals>>

\* affiliate_simulation_step, one iteration of the loop over
\* list(affiliate.wallet.keys()) for the affiliate at cursor: inner is the
\* 1-based position in that list.  The holding is sold in part when it is
\* positive and the draw falls below SELL_PROBABILITY.
LiquidateHolding ==
    /\ driver \in {"simulation", "steps"}
    /\ pc = "liquidation"
    /\ inner <= Len(affiliates[cursor + 1].wallet_keys)
    /\ LET a == affiliates[cursor + 1]
           token_name == a.wallet_keys[inner]
           t == tokens[token_name + 1]
       IN  \E sells \in BOOLEAN, r \in UnitDraws, draw \in Draws(t.bonding_curve_func) :
              LET tokens_to_sell_percentage == MulDiv(MAX_SELL_PERCENTAGE, r, Scale)
                  tokens_to_sell == MulDiv(a.wallet[token_name], tokens_to_sell_percentage, Scale)
                  t1 == sell(t, tokens_to_sell, draw)
                  sale_proceeds == MulDiv(t1.price, tokens_to_sell, Scale)
                  a1 == [a EXCEPT !.wallet[token_name] = @ - tokens_to_sell,
                                  !.base_currency_balance = @ + sale_proceeds]
              IN  IF a.wallet[token_name] > 0 /\ sells
                  THEN IF sell_raises(t, tokens_to_sell) \/ track_referral_raises(a1, sale_proceeds)
                       THEN /\ Abort("periodic sell", "ValueError")
                            /\ UNCHANGED <<tokens, affiliates, inner>>
                       ELSE /\ tokens' = [tokens EXCEPT ![token_name + 1] = t1]
                            /\ affiliates' = [affiliates EXCEPT ![cursor + 1] =
                                                  track_referral(a1, sale_proceeds)]
                            /\ inner' = inner + 1
                            /\ UNCHANGED <<pc, outcome>>
                  ELSE /\ inner' = inner + 1
                       /\ UNCHANGED <<tokens, affiliates, pc, outcome>>
    /\ UNCHANGED <<driver, previous, calls, params, step, cursor,
                   token_histories, affiliate_histories, bonding_curve_change_intervals>>

\* Variant of the end of the affiliate's turn that adjusts the commission
\* before it appends to the two histories.
LogAndAdjustAdjustingFirst ==
    /\ driver \in {"simulation", "steps"}
    /\ pc = "liquidation"
    /\ inner > Len(affiliates[cursor + 1].wallet_keys)
    /\ LET a == adjust_commission_dynamically(affiliates[cursor + 1], step)
           a1 == [a EXCEPT !.earnings_history = Append(@, a.total_earned),
                           !.commission_rate_history = Append(@, a.commission_rate)]
       IN  affiliates' = [affiliates EXCEPT ![cursor + 1] = a1]
    /\ IF cursor + 1 < Len(affiliates)
       THEN /\ cursor' = cursor + 1
            /\ inner' = 1
            /\ UNCHANGED pc
       ELSE /\ pc' = "capture"
            /\ cursor' = 0
            /\ inner' = 0
    /\ UNCHANGED <<driver, tokens, outcome, previous, calls, params, step,
                   token_histories, affiliate_histories, bonding_curve_change_intervals>>

\* affiliate_simulation_step after the wallet loop of the affiliate at
\* cursor: the two appends and adjust_commission_dynamically(step).
LogAndAdjust ==
    /\ driver \in {"simulation", "steps"}
    /\ pc = "liquidation"
    /\ inner > Len(affiliates[cursor + 1].wallet_keys)
    /\ LET a == affiliates[cursor + 1]
           a1 == [a EXCEPT !.earnings_history = Append(@, a.total_earned),
                           !.commission_rate_history = Append(@, a.commission_rate)]
       IN  affiliates' = [affiliates EXCEPT ![cursor + 1] =
                             adjust_commission_dynamically(a1, step)]
    /\ IF cursor + 1 < Len(affiliates)
       THEN /\ cursor' = cursor + 1
            /\ inner' = 1
            /\ UNCHANGED pc
       ELSE /\ pc' = "capture"
            /\ cursor' = 0
            /\ inner' = 0
    /\ UNCHANGED <<driver, tokens, outcome, previous, calls, params, step,
                   token_histories, affiliate_histories, bonding_curve_change_intervals>>

\* The object token.supply names: the array made by Token.__init__, which
\* buy and sell update in place (+=, -=).  A list that holds token.supply
\* holds this reference; Deref reads the array through it.
SupplyRef(t) == [ref |-> t.name]
Deref(e) == tokens[e.ref + 1].supply

\* The history capture that ends the body of run_simulation's loop.
\* token.price and the affiliate's numbers are rebound, never updated in
\* place, so the lists hold their values.
Capture ==
    /\ driver = "simulation"
    /\ pc = "capture"
    /\ token_histories' =
          [n \in DOMAIN token_histories |->
              LET t == tokens[n + 1]
              IN  [price |-> Append(token_histories[n].price, t.price),
                   supply |-> Append(token_histories[n].supply, SupplyRef(t)),
                   bonding_curve |-> Append(token_histories[n].bonding_curve,
                                            FunctionName(t.bonding_curve_func))]]
    /\ affiliate_histories' =
          [n \in DOMAIN affiliate_histories |->
              LET a == affiliates[n + 1]
                  h == affiliate_histories[n]
              IN  [earned |-> Append(h.earned, a.total_earned),
                   commission_rate |-> Append(h.commission_rate, a.commission_rate),
                   wallet |-> Append(h.wallet, a.wallet),
                   base_currency_balance |-> Append(h.base_currency_balance,
                                                    a.base_currency_balance)]]
    /\ pc' = LoopHead(step + 1).pc
    /\ step' = step + 1
    /\ cursor' = 0
    /\ inner' = LoopHead(step + 1).inner
    /\ UNCHANGED <<driver, tokens, affiliates, outcome, previous, calls, params,
                   bonding_curve_change_intervals>>

NextSimulation ==
    \/ Setup
    \/ DrawTransactions
    \/ Transaction
    \/ UpdateToken
    \/ LiquidateHolding
    \/ LogAndAdjust
    \/ Capture

SpecSimulation == InitSimulation /\ [][NextSimulation]_vars

-----------------------------------------------------------------------------
(* simulation.py: token_simulation_step and affiliate_simulation_step      *)
(* called for one step on lists the caller has built, as the body of       *)
(* run_simulation's loop calls them.  pc = "capture" is the return of      *)
(* affiliate_simulation_step.                                               *)

\* A recent_investment list of MOVING_AVERAGE_WINDOW distinct entries.
FullWindow == [i \in 1..MOVING_AVERAGE_WINDOW |-> i * Scale]

\* The lists the caller's affiliate starts with: empty, one entry short of
\* the window, and a full window.
WindowChoices ==
    { <<>>, SubSeq(FullWindow, 1, MOVING_AVERAGE_WINDOW - 1), FullWindow }

\* The step numbers the caller passes: one on which both curve changes
\* fall due and one on which neither does.
StepArguments == {0, 7}

InitSteps ==
    /\ driver = "steps"
    /\ tokens = <<Token(0, 1000 * Scale, 1 * Scale, 0)>>
    /\ \E whale \in BOOLEAN, capacity \in CapacityChoices, xs \in WindowChoices :
          affiliates = <<[Affiliate(0, 1000, whale, capacity)
                            EXCEPT !.recent_investment = xs]>>
    /\ outcome = NoCall
    /\ previous = NoCall
    /\ calls = 0
    /\ pc = "trading"
    /\ params = NoParams
    /\ step \in StepArguments
    /\ cursor = 0
    /\ inner = -1
    /\ token_histories = <<>>
    /\ affiliate_histories = <<>>
    /\ bonding_curve_change_intervals \in IntervalVectors

NextSteps ==
    \/ DrawTransactions
    \/ Transaction
    \/ UpdateToken
    \/ LiquidateHolding
    \/ LogAndAdjust

SpecSteps == InitSteps /\ [][NextSteps]_vars

-----------------------------------------------------------------------------
(* bonding_curves.py called directly: a caller evaluates one of the five   *)
(* curves at a supply with keyword parameters of its choice, as the unit   *)
(* tests do.                                                               *)

\* The supplies a caller passes.
SupplyArguments == {-1 * Scale, -1, 0, 1000 * Scale}

\* The keyword parameters a caller passes to entry i of
\* bonding_curve_functions: the defaults, values on and beyond each
\* limit the curve checks, and zeros.
CurveArguments(i) ==
    CASE i = 0 -> [m : {0, 1000, 2000}, b : {-1 * Scale, 0, 1 * Scale}]
      [] i = 1 -> [a : {0, 1 * Scale, 2 * Scale},
                   k : {-10001, -10000, 0, 500, 10000, 10001}]
      [] i = 2 -> [K : {-1 * Scale, 0, 10 * Scale}, k : {-100, 0, 100},
                   S0 : {0, 5000 * Scale}]
      [] i = 3 -> [k : {0, 1000, 2000}]
      [] i = 4 -> [k : {-1 * Scale, 0, 1 * Scale, 100000 * Scale}]

InitCurves ==
    /\ driver = "curves"
    /\ tokens = <<>>
    /\ affiliates = <<>>
    /\ outcome = NoCall
    /\ previous = NoCall
    /\ calls = 0
    /\ EngineIdle

\* bonding_curve_functions[i](supply, **p); outcome records the function's
\* name, the supply as arg, the keyword parameters as pre and the value
\* returned.
EvaluateCurve ==
    /\ driver = "curves"
    /\ \E i \in 0..(NumCurves - 1), supply \in SupplyArguments :
       \E p \in CurveArguments(i) :
          outcome' = IF CurveRaises(i, supply, p)
                     THEN Call(bonding_curve_functions[i + 1], supply, "ValueError", 0, p)
                     ELSE Call(bonding_curve_functions[i + 1], supply, "none",
                               CurveValue(i, supply, p), p)
    /\ UNCHANGED <<driver, tokens, affiliates, previous, calls>>
    /\ UNCHANGED engineVars

SpecCurves == InitCurves /\ [][EvaluateCurve]_vars

-----------------------------------------------------------------------------
Init == InitToken \/ InitAffiliate \/ InitSimulation \/ InitSteps \/ InitCurves

Next == NextToken \/ NextAffiliate \/ NextSimulation \/ EvaluateCurve

Spec == Init /\ [][Next]_vars

-----------------------------------------------------------------------------
(* Properties *)

Running == pc \in {"trading", "maintenance", "liquidation", "capture"}

\* The configuration of the run is one the constructors accept.
ValidConfig ==
    /\ params.initial_supply >= 0
    /\ params.initial_price >= 0
    /\ params.initial_commission_rate >= COMMISSION_RATE_MIN
    /\ params.initial_commission_rate <= COMMISSION_RATE_MAX

\* C1: in every reachable state of a Token (after construction, buy, sell,
\* change_bonding_curve, change_bonding_curve_parameters) its price is the
\* value of its current curve at its current supply, for some draw the
\* curve can make.
C1_PriceIsCurveOfSupply ==
    \A i \in DOMAIN tokens :
        \E d \in Draws(tokens[i].bonding_curve_func) :
            tokens[i].price = calculate_price(tokens[i], d)

\* C2: once the entry of step s is in a token's supply series, no later
\* step changes the value read from that entry.
C2_SupplyEntriesKeepTheirValue ==
    [][\A n \in DOMAIN token_histories :
          \A s \in 1..Len(token_histories[n].supply) :
              Deref(token_histories[n].supply[s])' = Deref(token_histories[n].supply[s])]_vars

\* C3: a run of N steps with T tokens and A affiliates has T token
\* histories and A affiliate histories; after k completed steps every
\* series has k entries, and N entries when run_simulation returns.
C3_SeriesLengths ==
    (Running \/ pc = "done") =>
        /\ DOMAIN token_histories = 0..(params.num_tokens - 1)
        /\ DOMAIN affiliate_histories = 0..(params.num_affiliates - 1)
        /\ \A n \in DOMAIN token_histories :
              /\ Len(token_histories[n].price) = step
              /\ Len(token_histories[n].supply) = step
              /\ Len(token_histories[n].bonding_curve) = step
        /\ \A n \in DOMAIN affiliate_histories :
              /\ Len(affiliate_histories[n].earned) = step
              /\ Len(affiliate_histories[n].commission_rate) = step
              /\ Len(affiliate_histories[n].wallet) = step
              /\ Len(affiliate_histories[n].base_currency_balance) = step
        /\ step <= params.num_simulation_steps
        /\ pc = "done" => step = params.num_simulation_steps

\* A run of two steps has returned.
C3_TwoStepRunReturned ==
    /\ pc = "done"
    /\ params.num_simulation_steps = 2
    /\ Len(token_histories[0].supply) = 2
    /\ Len(affiliate_histories[0].wallet) = 2

\* C4: change_bonding_curve succeeds in every reachable state of a Token,
\* after change_bonding_curve_parameters too.
C4_ChangeCurveSucceeds ==
    outcome.op = "change_bonding_curve" => outcome.raised = "none"

\* C5: for a valid configuration and every outcome of the random draws, no
\* exception ends run_simulation before the last step.
C5_RunNeverAborts ==
    (driver = "simulation" /\ ValidConfig) => pc # "aborted"

\* C6: Token.sell(amount) with amount above the supply raises ValueError
\* and leaves the token (supply, price, curve) as it was.
C6_SellAboveSupplyFails ==
    [][(/\ driver = "token"
        /\ calls' = calls + 1
        /\ outcome'.op = "sell"
        /\ outcome'.arg > tokens[1].supply)
       => (outcome'.raised = "ValueError" /\ tokens' = tokens)]_vars

\* A sell of more than the supply has been rejected.
C6_SellAboveSupplyRejected ==
    /\ driver = "token"
    /\ outcome.op = "sell"
    /\ outcome.arg > outcome.pre
    /\ outcome.pre > 0
    /\ outcome.raised = "ValueError"
    /\ tokens[1].supply = outcome.pre

\* C7, as the code has it: in the trading phase a sell whose intended
\* quantity exceeds the affiliate's holding is reduced to the holding; it
\* fails only when Token.sell rejects the reduced quantity, which then
\* exceeds the token's supply.
C7_SellIsReducedToHolding ==
    (driver = "simulation" /\ outcome.op = "sell" /\ outcome.arg > outcome.pre) =>
        \/ outcome.raised = "none" /\ outcome.ret = outcome.pre
        \/ /\ outcome.raised = "ValueError"
           /\ pc = "aborted"
           /\ \E i \in DOMAIN tokens : outcome.pre > tokens[i].supply

\* A sell of more than a positive holding went through for the holding.
C7_ReducedSellAccepted ==
    /\ driver = "simulation"
    /\ outcome.op = "sell"
    /\ outcome.arg > outcome.pre
    /\ outcome.pre > 0
    /\ outcome.raised = "none"
    /\ outcome.ret = outcome.pre

\* C7, as stated: in the trading phase a sell whose intended quantity
\* exceeds the affiliate's holding fails.
C7_SellAboveHoldingFails ==
    (driver = "simulation" /\ outcome.op = "sell" /\ outcome.arg > outcome.pre) =>
        outcome.raised # "none"

\* buy(X) accepted from supply previous.pre, then sell of the residual
\* X - fee - burn accepted.
RoundTripDone ==
    /\ driver = "token"
    /\ previous.op = "buy"
    /\ previous.raised = "none"
    /\ outcome.op = "sell"
    /\ outcome.raised = "none"
    /\ outcome.arg = AmountAfterFee(tokens[1], previous.arg)
    /\ outcome.arg > 0
    /\ outcome.pre = previous.pre + outcome.arg

\* C8, as the code has it: after buy(X) and the sell of the residual
\* r = X - fee - burn the supply is above the supply S before the buy, by
\* the fee and burn of the sell, which stay in the supply.
C8_RoundTripRaisesSupply ==
    RoundTripDone =>
        /\ tokens[1].supply > previous.pre
        /\ tokens[1].supply = previous.pre + (outcome.arg - AmountAfterFee(tokens[1], outcome.arg))

\* A round trip from a positive supply has been made.
C8_RoundTripMade ==
    RoundTripDone /\ previous.pre > 0 /\ tokens[1].supply = outcome.pre - AmountAfterFee(tokens[1], outcome.arg)

\* C8, as stated: after buy(X) and the sell of the residual the supply is
\* strictly less than the supply before the buy.
C8_RoundTripLowersSupply ==
    RoundTripDone => tokens[1].supply < previous.pre

\* C9: an affiliate's commission_rate is within
\* [COMMISSION_RATE_MIN, COMMISSION_RATE_MAX] in every reachable state:
\* after construction, after every adjust_commission_dynamically call, and
\* throughout an engine run.
C9_CommissionRateInBounds ==
    \A i \in DOMAIN affiliates :
        /\ COMMISSION_RATE_MIN <= affiliates[i].commission_rate
        /\ affiliates[i].commission_rate <= COMMISSION_RATE_MAX

\* An adjustment upwards from just below the maximum stopped at the maximum.
C9_AdjustmentStoppedAtMaximum ==
    /\ driver = "affiliate"
    /\ outcome.op = "adjust_commission_dynamically"
    /\ outcome.arg % COMMISSION_DYNAMICS_STEP = 0
    /\ outcome.pre + DYNAMIC_ADJUSTMENT_RATE > COMMISSION_RATE_MAX
    /\ AverageExceedsThreshold(affiliates[1].recent_investment)
    /\ affiliates[1].commission_rate = COMMISSION_RATE_MAX

\* C10: a token's supply is >= 0 in every reachable state.
C10_SupplyNonNegative ==
    \A i \in DOMAIN tokens : tokens[i].supply >= 0

\* The whole supply has been sold in one accepted call, after a rejected
\* one.
C10_WholeSupplySold ==
    /\ driver = "token"
    /\ outcome.op = "sell"
    /\ outcome.raised = "none"
    /\ outcome.arg = outcome.pre
    /\ outcome.pre > 0
    /\ previous.op = "sell"
    /\ previous.raised = "ValueError"
    /\ tokens[1].supply >= 0

\* C11: in every reachable state of an engine run every entry of every
\* affiliate's wallet is >= 0.
C11_WalletEntriesNonNegative ==
    driver = "simulation" =>
        \A i \in DOMAIN affiliates :
            \A n \in DOMAIN affiliates[i].wallet : affiliates[i].wallet[n] >= 0

\* A trading-phase sell of a whole positive holding has left a wallet
\* entry at 0.
C11_WalletEntryEmptied ==
    /\ driver = "simulation"
    /\ outcome.op = "sell"
    /\ outcome.raised = "none"
    /\ outcome.ret = outcome.pre
    /\ outcome.pre > 0
    /\ \E i \in DOMAIN affiliates :
          \E n \in DOMAIN affiliates[i].wallet : affiliates[i].wallet[n] = 0

\* C12: every entry of a token's bonding_curve series is one of the five
\* family names.
C12_HistoryNamesAFamily ==
    \A n \in DOMAIN token_histories :
        \A s \in 1..Len(token_histories[n].bonding_curve) :
            \E i \in 1..NumCurves :
                token_histories[n].bonding_curve[s] = bonding_curve_functions[i]

\* C13: after a buy or sell that changed the supply, the token's price is
\* the value of its current curve at the new supply (for a draw the curve
\* can make), and the call returned that price.
C13_PriceRecomputedAndReturned ==
    (/\ driver = "token"
     /\ outcome.op \in {"buy", "sell"}
     /\ outcome.raised = "none"
     /\ tokens[1].supply # outcome.pre) =>
        /\ \E d \in Draws(tokens[1].bonding_curve_func) :
               tokens[1].price = calculate_price(tokens[1], d)
        /\ outcome.ret = tokens[1].price

\* A buy has moved the supply and the price of a token whose price was off
\* its curve before the call.
C13_BuyMovedThePrice ==
    /\ driver = "token"
    /\ outcome.op = "buy"
    /\ outcome.raised = "none"
    /\ previous.op = "change_bonding_curve"
    /\ tokens[1].supply > outcome.pre
    /\ outcome.ret = tokens[1].price
    /\ tokens[1].price # calculate_price([tokens[1] EXCEPT !.supply = outcome.pre],
                                          CurveDefaults(tokens[1].bonding_curve_func.index))

\* The residual amount - fee_rate * amount - burn_rate * amount.
Residual(amount) ==
    amount - MulDiv(amount, TRANSACTION_FEE_RATE, Scale) - MulDiv(amount, BURN_RATE, Scale)

\* C14: an accepted buy(amount) raises the supply by
\* amount - fee_rate * amount - burn_rate * amount and an accepted
\* sell(amount) lowers it by the same quantity, against the supply just
\* before the call.
C14_SupplyMovesByResidual ==
    (driver = "token" /\ outcome.raised = "none") =>
        /\ outcome.op = "buy" => tokens[1].supply = outcome.pre + Residual(outcome.arg)
        /\ outcome.op = "sell" => tokens[1].supply = outcome.pre - Residual(outcome.arg)

\* buy(100) from a supply of 1000 has left 1099.73, or sell(100) from a
\* supply of 1000 has left 900.27.
C14_HundredTraded ==
    /\ driver = "token"
    /\ outcome.raised = "none"
    /\ outcome.arg = 100 * Scale
    /\ outcome.pre = 1000 * Scale
    /\ \/ outcome.op = "buy" /\ tokens[1].supply = 10997300
       \/ outcome.op = "sell" /\ tokens[1].supply = 9002700

\* C15: for a token on linear_bonding_curve with its default (positive)
\* slope, an accepted buy leaves the price strictly above, and an accepted
\* sell strictly below, the price just before the call.
C15_LinearPriceFollowsTrade ==
    [][(/\ driver = "token"
        /\ calls' = calls + 1
        /\ outcome'.raised = "none"
        /\ tokens[1].bonding_curve_func = [lambda |-> FALSE, index |-> 0])
       => /\ outcome'.op = "buy" => tokens'[1].price > tokens[1].price
          /\ outcome'.op = "sell" => tokens'[1].price < tokens[1].price]_vars

\* C16: Token.buy(amount) and Token.sell(amount) with amount <= 0 raise
\* ValueError and leave the token (supply, price, curve) as it was.
C16_NonPositiveAmountRejected ==
    [][(/\ driver = "token"
        /\ calls' = calls + 1
        /\ outcome'.op \in {"buy", "sell"}
        /\ outcome'.arg <= 0)
       => (outcome'.raised = "ValueError" /\ tokens' = tokens)]_vars

\* buy(0) has been rejected after sell(-1) was, on a token with a positive
\* supply that neither call changed.
C16_ZeroAndNegativeRejected ==
    /\ driver = "token"
    /\ previous.op = "sell"
    /\ previous.arg < 0
    /\ previous.raised = "ValueError"
    /\ outcome.op = "buy"
    /\ outcome.arg = 0
    /\ outcome.raised = "ValueError"
    /\ tokens[1].supply = previous.pre
    /\ tokens[1].supply > 0

\* C17: change_bonding_curve_parameters installs parameters drawn from the
\* family's ranges: while the token stays on the curve the call left, its
\* prices are the values of that family for one parameter record p of the
\* ranges.  Stated for two accepted trades in a row: both returned prices
\* come from the same p.
C17_ParametersInstalled ==
    (/\ driver = "token"
     /\ previous.op \in {"buy", "sell"}
     /\ previous.raised = "none"
     /\ outcome.op \in {"buy", "sell"}
     /\ outcome.raised = "none"
     /\ tokens[1].bonding_curve_func.lambda) =>
        \E p \in ParameterDraws(tokens[1].bonding_curve_func.index) :
            /\ previous.ret = CurveValue(tokens[1].bonding_curve_func.index, outcome.pre, p)
            /\ outcome.ret = CurveValue(tokens[1].bonding_curve_func.index, tokens[1].supply, p)

\* C18: two calls of calculate_price with no mutation of the token between
\* them return the same value.
C18_PriceCallsAgree ==
    (/\ driver = "token"
     /\ previous.op = "calculate_price"
     /\ outcome.op = "calculate_price") =>
        outcome.ret = previous.ret

\* C19: within a step the phases run in order.  Trades happen only in the
\* trading phase, curve and parameter changes only in the maintenance
\* phase, commission adjustments only in the liquidation phase, and the
\* histories grow only in the capture; a phase starts only when the one
\* before it has gone through all its affiliates or tokens.
C19_PhasesInOrder ==
    [][driver = "simulation" =>
        /\ pc = "start" => pc' \in {"trading", "done", "aborted"}
        /\ pc = "trading" => pc' \in {"trading", "maintenance", "aborted"}
        /\ pc = "maintenance" => pc' \in {"maintenance", "liquidation", "aborted"}
        /\ pc = "liquidation" => pc' \in {"liquidation", "capture", "aborted"}
        /\ pc = "capture" => pc' \in {"trading", "done"}
        /\ (pc = "trading" /\ pc' = "maintenance") => cursor = Len(affiliates) - 1
        /\ (pc = "maintenance" /\ pc' = "liquidation") => cursor = Len(tokens) - 1
        /\ (pc = "liquidation" /\ pc' = "capture") => cursor = Len(affiliates) - 1
        /\ (pc # "maintenance" /\ pc # "start") =>
              \A i \in DOMAIN tokens :
                  /\ tokens'[i].bonding_curve_func = tokens[i].bonding_curve_func
                  /\ tokens'[i].curve_metadata = tokens[i].curve_metadata
        /\ (pc \notin {"trading", "liquidation", "start"}) =>
              \A i \in DOMAIN affiliates :
                  /\ affiliates'[i].wallet = affiliates[i].wallet
                  /\ affiliates'[i].base_currency_balance = affiliates[i].base_currency_balance
        /\ (pc # "liquidation" /\ pc # "start") =>
              \A i \in DOMAIN affiliates :
                  affiliates'[i].commission_rate = affiliates[i].commission_rate
        /\ (pc # "capture" /\ pc # "start") =>
              /\ token_histories' = token_histories
              /\ affiliate_histories' = affiliate_histories
              /\ step' = step]_vars

\* A step of a run with two affiliates is at its capture: both have
\* traded, the token's curve and parameters have been changed, and both
\* commission rates have been adjusted.
C19_StepReachedCapture ==
    /\ driver = "simulation"
    /\ pc = "capture"
    /\ params.num_affiliates = 2
    /\ \A i \in DOMAIN affiliates :
          /\ affiliates[i].wallet # <<>>
          /\ Len(affiliates[i].commission_rate_history) = step + 1
          /\ affiliates[i].commission_rate # params.initial_commission_rate
    /\ tokens[1].bonding_curve_func = [lambda |-> TRUE, index |-> 1]

\* C20: every token of a run has a curve-change interval of its own, in
\* 500..1000, whatever num_tokens is.
C20_EveryTokenHasAnInterval ==
    driver = "simulation" =>
        \A i \in DOMAIN tokens :
            /\ i <= Len(bonding_curve_change_intervals)
            /\ bonding_curve_change_intervals[i] \in 500..1000

\* An adjust_commission_dynamically call is being made on the affiliate.
AdjustCall ==
    /\ driver = "affiliate"
    /\ calls' = calls + 1
    /\ outcome'.op = "adjust_commission_dynamically"

\* C21: adjust_commission_dynamically(step) leaves commission_rate as it
\* was when step mod COMMISSION_DYNAMICS_STEP is not 0, and for every step
\* it changes no field other than commission_rate.
C21_AdjustFrame ==
    [][AdjustCall =>
        /\ outcome'.arg % COMMISSION_DYNAMICS_STEP # 0 => affiliates' = affiliates
        /\ affiliates' = <<[affiliates[1] EXCEPT
                               !.commission_rate = affiliates'[1].commission_rate]>>]_vars

\* adjust_commission_dynamically(9) has left the rate of an affiliate with
\* earnings and a filled window where it was.
C21_OffStepCallMade ==
    /\ driver = "affiliate"
    /\ outcome.op = "adjust_commission_dynamically"
    /\ outcome.arg = 9
    /\ affiliates[1].commission_rate = outcome.pre
    /\ affiliates[1].total_earned > 0
    /\ affiliates[1].recent_investment # <<>>

\* C22: when step mod COMMISSION_DYNAMICS_STEP = 0 the call sets the rate
\* to min(MAX, rate + delta) if the mean of recent_investment is strictly
\* above the threshold and to max(MIN, rate - delta) otherwise; the empty
\* window and a mean equal to the threshold decrement.
C22_AdjustValue ==
    [][(AdjustCall /\ outcome'.arg % COMMISSION_DYNAMICS_STEP = 0) =>
        LET xs == affiliates[1].recent_investment
            rate == affiliates[1].commission_rate
            above == xs # <<>> /\ SumSeq(xs) > INVESTMENT_THRESHOLD * Len(xs)
        IN  affiliates'[1].commission_rate =
               IF above
               THEN (IF rate + DYNAMIC_ADJUSTMENT_RATE > COMMISSION_RATE_MAX
                     THEN COMMISSION_RATE_MAX ELSE rate + DYNAMIC_ADJUSTMENT_RATE)
               ELSE (IF rate - DYNAMIC_ADJUSTMENT_RATE < COMMISSION_RATE_MIN
                     THEN COMMISSION_RATE_MIN ELSE rate - DYNAMIC_ADJUSTMENT_RATE)]_vars

\* An adjustment with a window whose mean equals the threshold has lowered
\* the rate by the delta.
C22_MeanAtThresholdDecremented ==
    /\ driver = "affiliate"
    /\ outcome.op = "adjust_commission_dynamically"
    /\ outcome.arg % COMMISSION_DYNAMICS_STEP = 0
    /\ affiliates[1].recent_investment # <<>>
    /\ SumSeq(affiliates[1].recent_investment)
          = INVESTMENT_THRESHOLD * Len(affiliates[1].recent_investment)
    /\ affiliates[1].commission_rate = outcome.pre - DYNAMIC_ADJUSTMENT_RATE

\* C23: track_referral(t) with t >= 0 adds t * commission_rate to
\* total_earned and t to total_referral_amount and changes nothing else;
\* with t < 0 it raises ValueError and changes nothing.
C23_TrackReferral ==
    [][(/\ driver = "affiliate"
        /\ calls' = calls + 1
        /\ outcome'.op = "track_referral") =>
        IF outcome'.arg >= 0
        THEN /\ outcome'.raised = "none"
             /\ affiliates' = <<[affiliates[1] EXCEPT
                    !.total_earned = @ + MulDiv(outcome'.arg, affiliates[1].commission_rate, Scale),
                    !.total_referral_amount = @ + outcome'.arg]>>
        ELSE /\ outcome'.raised = "ValueError"
             /\ affiliates' = affiliates]_vars

\* track_referral(50) has been accepted at a positive rate after
\* track_referral(-1) was rejected.
C23_ReferralTrackedAfterRejection ==
    /\ driver = "affiliate"
    /\ previous.op = "track_referral"
    /\ previous.raised = "ValueError"
    /\ outcome.op = "track_referral"
    /\ outcome.raised = "none"
    /\ outcome.arg > 0
    /\ affiliates[1].total_referral_amount = outcome.arg
    /\ affiliates[1].total_earned = MulDiv(outcome.arg, outcome.pre, Scale)
    /\ affiliates[1].total_earned > 0

\* C24: Affiliate(...) with a negative id or a rate outside
\* [COMMISSION_RATE_MIN, COMMISSION_RATE_MAX] and Token(...) with a negative
\* initial supply or price raise ValueError and construct nothing, every
\* other construction succeeds; a run whose configuration has such a value
\* ends in that ValueError during setup, in step 0, with no token, no
\* affiliate and no history made.
C24_InvalidConstructionFails ==
    /\ (driver = "token" /\ outcome.op = "Token") =>
           IF outcome.arg < 0 \/ outcome.pre < 0
           THEN outcome.raised = "ValueError" /\ tokens = <<>>
           ELSE outcome.raised = "none" /\ Len(tokens) = 1
    /\ (driver = "affiliate" /\ outcome.op = "Affiliate") =>
           IF outcome.pre < 0 \/ outcome.arg < COMMISSION_RATE_MIN
                              \/ outcome.arg > COMMISSION_RATE_MAX
           THEN outcome.raised = "ValueError" /\ affiliates = <<>>
           ELSE outcome.raised = "none" /\ Len(affiliates) = 1
    /\ (driver = "simulation" /\ ~ValidConfig /\ pc # "start") =>
           /\ pc = "aborted"
           /\ outcome.op \in {"Token", "Affiliate"}
           /\ outcome.raised = "ValueError"
           /\ step = 0
           /\ tokens = <<>>
           /\ affiliates = <<>>
           /\ token_histories = <<>>
           /\ affiliate_histories = <<>>

\* A run with a valid supply and price and a commission rate above the
\* maximum has ended in the ValueError of Affiliate during setup.
C24_RunAbortedInSetup ==
    /\ driver = "simulation"
    /\ pc = "aborted"
    /\ outcome.op = "Affiliate"
    /\ outcome.raised = "ValueError"
    /\ params.initial_supply >= 0
    /\ params.initial_price >= 0
    /\ params.initial_commission_rate > COMMISSION_RATE_MAX
    /\ token_histories = <<>>

\* C25: in every reachable state a whale's whale_investment_capacity lies
\* in [WHALE_INVESTMENT_MIN, WHALE_INVESTMENT_MAX] and every other
\* affiliate's is 0, and no step of a trade, a liquidation or an adjustment
\* changes the capacity of an affiliate.
C25_WhaleCapacityFixed ==
    [][/\ \A i \in DOMAIN affiliates :
             IF affiliates[i].is_whale
             THEN /\ affiliates[i].whale_investment_capacity >= WHALE_INVESTMENT_MIN
                  /\ affiliates[i].whale_investment_capacity <= WHALE_INVESTMENT_MAX
             ELSE affiliates[i].whale_investment_capacity = 0
       /\ \A i \in DOMAIN affiliates' :
             /\ IF affiliates'[i].is_whale
                THEN /\ affiliates'[i].whale_investment_capacity >= WHALE_INVESTMENT_MIN
                     /\ affiliates'[i].whale_investment_capacity <= WHALE_INVESTMENT_MAX
                ELSE affiliates'[i].whale_investment_capacity = 0
             /\ i \in DOMAIN affiliates =>
                   /\ affiliates'[i].whale_investment_capacity
                         = affiliates[i].whale_investment_capacity
                   /\ affiliates'[i].is_whale = affiliates[i].is_whale]_vars

\* A whale has bought, sold part of the holding in the liquidation and
\* gone through adjust_commission_dynamically, with its capacity in range.
C25_WhaleWentThroughAStep ==
    /\ driver = "steps"
    /\ pc = "capture"
    /\ affiliates[1].is_whale
    /\ affiliates[1].whale_investment_capacity >= WHALE_INVESTMENT_MIN
    /\ affiliates[1].whale_investment_capacity <= WHALE_INVESTMENT_MAX
    /\ outcome.op = "buy"
    /\ outcome.ret > 0
    /\ WalletGet(affiliates[1].wallet, 0) < outcome.ret
    /\ affiliates[1].commission_rate_history # <<>>

\* C26: each of the five curves raises ValueError for a negative supply;
\* the exponential curve also for |k| > 0.01, the sigmoid curve for K <= 0
\* and for k <= 0, the inverse curve for k <= 0.
C26_CurvesRejectBadArguments ==
    (driver = "curves" /\ outcome.op # "none") =>
        LET p == outcome.pre
            rejected ==
                \/ outcome.arg < 0
                \/ /\ outcome.op = "exponential_bonding_curve"
                   /\ (p.k > 10000 \/ p.k < -10000)
                \/ /\ outcome.op = "sigmoid_bonding_curve"
                   /\ (p.K <= 0 \/ p.k <= 0)
                \/ /\ outcome.op = "inverse_bonding_curve"
                   /\ p.k <= 0
        IN  rejected => outcome.raised = "ValueError"

\* The exponential curve has rejected a k beyond 0.01 at a supply that is
\* not negative.
C26_LargeKRejected ==
    /\ driver = "curves"
    /\ outcome.op = "exponential_bonding_curve"
    /\ outcome.arg >= 0
    /\ outcome.pre.k > 10000
    /\ outcome.raised = "ValueError"

\* C27: for every accepted parameter set a curve called with supply 0
\* returns its base value: linear b, exponential a, sigmoid
\* K / (1 + e^(k * S0)), root 0, inverse k.
C27_BaseValueAtZero ==
    (driver = "curves" /\ outcome.raised = "none" /\ outcome.arg = 0) =>
        LET p == outcome.pre
        IN  /\ outcome.op = "linear_bonding_curve" => outcome.ret = p.b
            /\ outcome.op = "exponential_bonding_curve" => outcome.ret = p.a
            /\ outcome.op = "sigmoid_bonding_curve" =>
                  outcome.ret = (p.K * Scale) \div (Scale + Exp(MulDiv(p.S0, p.k, Micro)))
            /\ outcome.op = "root_bonding_curve" => outcome.ret = 0
            /\ outcome.op = "inverse_bonding_curve" => outcome.ret = p.k

\* The sigmoid curve with a midpoint above 0 has been evaluated at supply
\* 0 and returned less than half of K.
C27_SigmoidBelowMidpoint ==
    /\ driver = "curves"
    /\ outcome.op = "sigmoid_bonding_curve"
    /\ outcome.raised = "none"
    /\ outcome.arg = 0
    /\ outcome.pre.S0 > 0
    /\ outcome.ret > 0
    /\ 2 * outcome.ret < outcome.pre.K

\* C28: change_bonding_curve, change_bonding_curve_parameters and the
\* maintenance phase of a step leave the supply of every token as it was;
\* a supply changes only in an accepted buy or sell (of a caller, of the
\* trading phase or of the liquidation).
C28_SupplyChangesOnlyInTrades ==
    [][(tokens # <<>> /\ DOMAIN tokens' = DOMAIN tokens) =>
        LET changed == \E i \in DOMAIN tokens : tokens'[i].supply # tokens[i].supply
        IN  /\ driver = "token" =>
                 /\ outcome'.op \in {"change_bonding_curve",
                                     "change_bonding_curve_parameters"} => ~changed
                 /\ changed => /\ outcome'.op \in {"buy", "sell"}
                               /\ outcome'.raised = "none"
                               /\ calls' = calls + 1
            /\ driver \in {"simulation", "steps"} =>
                 /\ pc = "maintenance" => ~changed
                 /\ changed => /\ pc \in {"trading", "liquidation"}
                               /\ pc' # "aborted"
                               /\ pc = "trading" => /\ outcome'.op \in {"buy", "sell"}
                                                    /\ outcome'.raised = "none"]_vars

\* The maintenance of step 0 has changed the family and the parameters of
\* a token whose supply a buy of the trading phase had raised, and the
\* supply is still the raised one.
C28_MaintenanceAfterBuy ==
    /\ driver = "steps"
    /\ step = 0
    /\ pc = "liquidation"
    /\ cursor = 0
    /\ inner = 1
    /\ outcome.op = "buy"
    /\ outcome.raised = "none"
    /\ tokens[1].bonding_curve_func = [lambda |-> TRUE, index |-> 1]
    /\ tokens[1].supply = 1000 * Scale + Residual(outcome.arg)

\* C29: in a run the recent_investment list of an affiliate holds at most
\* MOVING_AVERAGE_WINDOW entries in arrival order: a step leaves it as it
\* was or appends one entry, and appending to a full list removes exactly
\* the oldest entry and keeps the order of the others.  Every transaction
\* at a positive price appends its invest_amount.
C29_WindowSlides ==
    [][(driver \in {"simulation", "steps"} /\ affiliates # <<>>) =>
        \A i \in DOMAIN affiliates :
            LET xs == affiliates[i].recent_investment
                ys == affiliates'[i].recent_investment
                appended ==
                    IF Len(xs) < MOVING_AVERAGE_WINDOW
                    THEN /\ Len(ys) = Len(xs) + 1
                         /\ SubSeq(ys, 1, Len(xs)) = xs
                    ELSE /\ Len(ys) = MOVING_AVERAGE_WINDOW
                         /\ SubSeq(ys, 1, MOVING_AVERAGE_WINDOW - 1) = Tail(xs)
            IN  /\ Len(xs) <= MOVING_AVERAGE_WINDOW
                /\ Len(ys) <= MOVING_AVERAGE_WINDOW
                /\ ys = xs \/ appended
                /\ (/\ pc = "trading"
                    /\ inner > 0
                    /\ i = cursor + 1
                    /\ pc' # "aborted"
                    /\ outcome'.op \in {"buy", "sell"}) =>
                       /\ appended
                       /\ ys[Len(ys)] >= INITIAL_TOKEN_INVESTMENT]_vars

\* A transaction has appended to a full list: the oldest entry is gone,
\* the other 49 have moved up in order and the new one is last.
C29_FullWindowSlid ==
    /\ driver = "steps"
    /\ outcome.op \in {"buy", "sell"}
    /\ Len(affiliates[1].recent_investment) = MOVING_AVERAGE_WINDOW
    /\ SubSeq(affiliates[1].recent_investment, 1, MOVING_AVERAGE_WINDOW - 1)
          = Tail(FullWindow)
    /\ affiliates[1].recent_investment[MOVING_AVERAGE_WINDOW] >= INITIAL_TOKEN_INVESTMENT
    /\ affiliates[1].recent_investment[MOVING_AVERAGE_WINDOW]
          # FullWindow[MOVING_AVERAGE_WINDOW]

\* C30: a buy of the trading phase executes only if the affiliate's
\* balance covers the cost.  An executed buy lowers the balance by the
\* cost, which is the investment notional (quantity times price, the
\* quantity being notional / price), adds the whole pre-fee quantity to
\* wallet[token], creating the entry if absent, and raises
\* total_referral_amount by the same amount.  A buy the balance does not
\* cover changes no balance, wallet, earnings total or token.
C30_TradingPhaseBuy ==
    [][(/\ driver \in {"simulation", "steps"}
        /\ pc = "trading"
        /\ inner > 0
        /\ outcome'.op = "buy") =>
        LET a == affiliates[cursor + 1]
            b == affiliates'[cursor + 1]
            invest_amount == b.recent_investment[Len(b.recent_investment)]
        IN  /\ pc' # "aborted"
            /\ \A i \in DOMAIN affiliates : i # cursor + 1 => affiliates'[i] = affiliates[i]
            /\ \E j \in DOMAIN tokens :
                  LET t == tokens[j]
                      cost == MulDiv(outcome'.arg, t.price, Scale)
                  IN  /\ t.price > 0
                      /\ outcome'.arg = MulDiv(invest_amount, Scale, t.price)
                      /\ cost <= invest_amount
                      /\ invest_amount - cost <= (t.price \div Scale) + 1
                      /\ \A k \in DOMAIN tokens : k # j => tokens'[k] = tokens[k]
                      /\ IF a.base_currency_balance >= cost
                         THEN /\ b.base_currency_balance = a.base_currency_balance - cost
                              /\ DOMAIN b.wallet = DOMAIN a.wallet \cup {t.name}
                              /\ b.wallet[t.name] = WalletGet(a.wallet, t.name) + outcome'.arg
                              /\ \A n \in DOMAIN a.wallet :
                                    n # t.name => b.wallet[n] = a.wallet[n]
                              /\ b.total_referral_amount = a.total_referral_amount + cost
                              /\ tokens'[j].supply > t.supply
                         ELSE /\ tokens' = tokens
                              /\ b.base_currency_balance = a.base_currency_balance
                              /\ b.wallet = a.wallet
                              /\ b.total_earned = a.total_earned
                              /\ b.total_referral_amount = a.total_referral_amount]_vars

\* A whale whose draw of the notional exceeds its balance has attempted a
\* buy: the wallet is still empty, the balance and the totals are the
\* initial ones and the supply is the initial one.
C30_UnaffordableBuyLeftAlone ==
    /\ driver = "steps"
    /\ outcome.op = "buy"
    /\ outcome.raised = "none"
    /\ outcome.arg > INITIAL_BASE_CURRENCY
    /\ affiliates[1].is_whale
    /\ affiliates[1].base_currency_balance = INITIAL_BASE_CURRENCY
    /\ affiliates[1].wallet = <<>>
    /\ affiliates[1].total_referral_amount = 0
    /\ affiliates[1].recent_investment # <<>>
    /\ tokens[1].supply = 1000 * Scale

\* C31: in every step each affiliate's earnings_history and
\* commission_rate_history receive exactly one entry, appended after the
\* affiliate's liquidation sells and before its commission adjustment:
\* the entry of step s is the rate before the adjustment of step s, and
\* entry s of the run's commission_rate series is the rate after it.
C31_HistoriesBeforeAdjustment ==
    [][(driver = "simulation" /\ affiliates # <<>>) =>
        \A i \in DOMAIN affiliates :
            LET a == affiliates[i]
                b == affiliates'[i]
                pre == a.commission_rate_history[step + 1]
            IN  /\ IF pc = "liquidation" /\ i = cursor + 1 /\ inner > Len(a.wallet_keys)
                   THEN /\ Len(a.commission_rate_history) = step
                        /\ Len(a.earnings_history) = step
                        /\ b.commission_rate_history
                              = Append(a.commission_rate_history, a.commission_rate)
                        /\ b.earnings_history = Append(a.earnings_history, a.total_earned)
                   ELSE /\ b.commission_rate_history = a.commission_rate_history
                        /\ b.earnings_history = a.earnings_history
                /\ pc = "capture" =>
                      /\ Len(a.commission_rate_history) = step + 1
                      /\ affiliate_histories'[i - 1].commission_rate
                            = Append(affiliate_histories[i - 1].commission_rate,
                                     a.commission_rate)
                      /\ IF step % COMMISSION_DYNAMICS_STEP = 0
                         THEN a.commission_rate \in
                                 { IF pre - DYNAMIC_ADJUSTMENT_RATE < COMMISSION_RATE_MIN
                                   THEN COMMISSION_RATE_MIN
                                   ELSE pre - DYNAMIC_ADJUSTMENT_RATE,
                                   IF pre + DYNAMIC_ADJUSTMENT_RATE > COMMISSION_RATE_MAX
                                   THEN COMMISSION_RATE_MAX
                                   ELSE pre + DYNAMIC_ADJUSTMENT_RATE }
                         ELSE a.commission_rate = pre]_vars

\* Step 0 has been captured: the affiliate's own history holds the rate
\* before the adjustment of step 0 and the run's series the rate after it.
C31_SeriesDifferAtStepZero ==
    /\ driver = "simulation"
    /\ step >= 1
    /\ affiliates[1].commission_rate_history[1] = 1000
    /\ affiliate_histories[0].commission_rate[1] = 1000 - DYNAMIC_ADJUSTMENT_RATE
    /\ Len(affiliates[1].earnings_history) = step

\* C32: in every reachable state of a run every affiliate's
\* base_currency_balance is >= 0; a step lowers it only in a buy of the
\* trading phase, and by no more than the balance.
C32_BalanceNonNegative ==
    [][(driver \in {"simulation", "steps"} /\ affiliates # <<>>) =>
        \A i \in DOMAIN affiliates :
            /\ affiliates[i].base_currency_balance >= 0
            /\ affiliates'[i].base_currency_balance >= 0
            /\ affiliates'[i].base_currency_balance < affiliates[i].base_currency_balance =>
                  /\ pc = "trading"
                  /\ outcome'.op = "buy"
                  /\ outcome'.raised = "none"]_vars

\* A whale has spent all but a grid unit of its balance on one buy.
C32_BalanceNearlySpent ==
    /\ driver = "steps"
    /\ outcome.op = "buy"
    /\ outcome.ret > 0
    /\ affiliates[1].base_currency_balance >= 0
    /\ affiliates[1].base_currency_balance < 1 * Scale
    /\ affiliates[1].wallet # <<>>

\* The sum of all affiliates' holdings of the token called name.
Holdings(name) ==
    SumSeq([i \in 1..Len(affiliates) |-> WalletGet(affiliates[i].wallet, name)])

\* The rounding of the fee and of the burn to the grid moves the supply by
\* less than two grid units per trade, and a run within the bounds makes
\* at most 3 * MaxRunSize trades.
RoundingSlack == 2 * 3 * MaxRunSize

\* C33: for every token, in every state of a run, supply - initial_supply
\* is (1 - fee rate - burn rate) times the sum of all affiliates' holdings
\* of the token (up to the rounding of the trades to the grid), so that
\* the supply does not fall below the initial supply.
C33_SupplyTracksHoldings ==
    driver = "simulation" =>
        \A j \in DOMAIN tokens :
            LET grown == tokens[j].supply - params.initial_supply
                kept == MulDiv(Holdings(tokens[j].name),
                               Scale - TRANSACTION_FEE_RATE - BURN_RATE, Scale)
            IN  /\ grown - kept <= RoundingSlack
                /\ kept - grown <= RoundingSlack
                /\ grown >= -RoundingSlack

\* A step has ended after a buy and a liquidation sell of part of the
\* holding: the supply is above the initial supply and a holding is left.
C33_HoldingLeftAfterStep ==
    /\ driver = "simulation"
    /\ pc = "capture"
    /\ outcome.op = "buy"
    /\ outcome.ret > 0
    /\ Holdings(0) > 0
    /\ Holdings(0) < outcome.ret
    /\ tokens[1].supply > params.initial_supply

\* C34: in the liquidation phase every quantity passed to Token.sell is
\* strictly positive, for every fraction the draw can produce (0 included),
\* so that no ValueError of the liquidation ends the run.
C34_LiquidationNeverRaises ==
    driver = "simulation" =>
        ~(pc = "aborted" /\ outcome.op = "periodic sell")

\* C35: for every valid configuration, initial_supply = 0 included, no
\* affiliate's holding of a token exceeds the token's supply.
C35_HoldingWithinSupply ==
    (driver = "simulation" /\ ValidConfig) =>
        \A i \in DOMAIN affiliates : \A j \in DOMAIN tokens :
            WalletGet(affiliates[i].wallet, tokens[j].name) <= tokens[j].supply

\* C36: with the default base investment the commission_rate of an
\* affiliate that is not a whale never increases during a run: the
\* adjustment of a step that is a multiple of COMMISSION_DYNAMICS_STEP
\* lowers it by DYNAMIC_ADJUSTMENT_RATE, stopping at COMMISSION_RATE_MIN,
\* and nothing else changes it.
C36_RateOnlyFalls ==
    [][(driver = "simulation" /\ affiliates # <<>>) =>
        \A i \in DOMAIN affiliates :
            LET a == affiliates[i]
                b == affiliates'[i]
                lowered == IF a.commission_rate - DYNAMIC_ADJUSTMENT_RATE < COMMISSION_RATE_MIN
                           THEN COMMISSION_RATE_MIN
                           ELSE a.commission_rate - DYNAMIC_ADJUSTMENT_RATE
            IN  ~a.is_whale =>
                  /\ b.commission_rate <= a.commission_rate
                  /\ IF /\ pc = "liquidation"
                        /\ i = cursor + 1
                        /\ inner > Len(a.wallet_keys)
                        /\ step % COMMISSION_DYNAMICS_STEP = 0
                     THEN b.commission_rate = lowered
                     ELSE b.commission_rate = a.commission_rate]_vars

\* The adjustment of step 0 has taken a rate of 0.0003 to the minimum
\* after the affiliate made its transactions.
C36_RateReachedMinimum ==
    /\ driver = "simulation"
    /\ pc = "capture"
    /\ affiliates[1].commission_rate_history = <<3>>
    /\ affiliates[1].commission_rate = COMMISSION_RATE_MIN
    /\ affiliates[1].recent_investment # <<>>

\* C37: a transaction that picks a token whose price is not positive is
\* skipped and changes neither the tokens nor the affiliate, the
\* recent_investment list included; in a run with initial_price = 0 the
\* price of every token stays 0 through the curve changes, no token is
\* traded and every supply stays at initial_supply.
C37_ZeroPriceNeverTraded ==
    [][(driver = "simulation" /\ tokens # <<>>) =>
        /\ (pc = "trading" /\ inner > 0 /\ outcome'.op = "skip") =>
              /\ pc' # "aborted"
              /\ tokens' = tokens
              /\ affiliates' = affiliates
        /\ params.initial_price = 0 =>
              /\ \A j \in DOMAIN tokens' :
                    /\ tokens'[j].price = 0
                    /\ tokens'[j].supply = params.initial_supply
              /\ \A i \in DOMAIN affiliates' :
                    /\ affiliates'[i].wallet = <<>>
                    /\ affiliates'[i].recent_investment = <<>>
                    /\ affiliates'[i].base_currency_balance = INITIAL_BASE_CURRENCY
              /\ (pc = "trading" /\ inner > 0) => outcome'.op = "skip"]_vars

\* A run with initial_price = 0 has finished step 0, in which the
\* transactions were skipped and the maintenance changed the token's
\* family and parameters: the supply is the initial one.
C37_SkippedThroughCurveChange ==
    /\ driver = "simulation"
    /\ params.initial_price = 0
    /\ params.initial_supply > 0
    /\ step >= 1
    /\ outcome.op = "skip"
    /\ tokens[1].bonding_curve_func.lambda
    /\ tokens[1].bonding_curve_func.index = 1
    /\ tokens[1].supply = params.initial_supply
    /\ affiliates[1].recent_investment = <<>>

=============================================================================
